---- MODULE Spec2Model ----
(***************************************************************************)
(* Model of the WeKnora document reader (services/docreader):              *)
(*   - BaseParser._split_into_units / chunk_text / parse  (base_parser.py) *)
(*   - Docx large-document decomposition and page mapping (docx_parser.py) *)
(*   - image enrichment of a batch                        (base_parser.py) *)
(*   - ReadFromFile, parse_file, _convert_chunk_to_proto  (server.py,      *)
(*     parser.py)                                                          *)
(*   - the nested semaphores of process_chunks_images     (base_parser.py) *)
(*   - enrichment with a backend that does not respond    (base_parser.py, *)
(*     caption.py)                                                         *)
(*   - ReadFromURL, parse_url, WebParser                  (server.py,      *)
(*     parser.py, web_parser.py)                                           *)
(*   - the sequential and the worker-pool path of Docx    (docx_parser.py) *)
(*                                                                         *)
(* A text is a sequence of one-character strings.  Offsets are 0-based and *)
(* ranges half-open, as in the Python source: text[a:b] is Slice(text,a,b).*)
(***************************************************************************)
EXTENDS Integers, Sequences, FiniteSets, TLC

VARIABLES
    \* ---- BaseParser (chunking and parse) ----
    text,               \* the text returned by parse_into_text
    chunk_size,         \* self.chunk_size
    chunk_overlap,      \* self.chunk_overlap
    separators,         \* self.separators (list of strings, each a char sequence)
    max_chunks,         \* self.max_chunks
    enable_multimodal,  \* self.enable_multimodal
    file_ext,           \* the file extension parse derives from file_name / file_type
    units,              \* result of _split_into_units(text)
    chunks,             \* the chunk list held by chunk_text / parse
    task_results,       \* results of the per-chunk image tasks (asyncio.gather slots)
    pc,                 \* position of the parser
    \* ---- Docx decomposition (large document path) ----
    doc_paragraphs,     \* kind of every paragraph of the document, by paragraph index
    para_page_mapping,  \* page number p -> paragraph indices, as para_page_mapping[p+1]
    docx_multimodal,    \* Docx.enable_multimodal
    futures,            \* per submitted page task: "running", or its outcome
    results,            \* the local list `results` of _collect_process_results
    image_url_map,      \* the temporary image paths that got an uploaded URL
    sorted_lines,       \* the local list `sorted_lines` of _process_multiprocess_results
    all_lines,          \* self.all_lines
    same_picture,       \* whether the image paragraphs all embed one and the same picture
    temp_file,          \* whether the shared temporary copy of the document bytes exists
    temp_images,        \* the temporary image files that exist
    upload_calls,       \* the paths upload_file was called with, in call order
    dpc,                \* position of the coordinator
    \* ---- BaseParser.process_multiple_images (image enrichment) ----
    images_data,        \* the url of every (image, url) pair of the batch
    max_concurrent_tasks, \* self.max_concurrent_tasks
    caption_parser,     \* whether self.caption_parser is set
    semaphore,          \* the value of the asyncio.Semaphore
    image_tasks,        \* per process_with_limit task: position, outcomes, result
    image_results,      \* the list process_multiple_images returns
    ipc,                \* position of process_multiple_images
    \* ---- DocReaderServicer.ReadFromFile and Parser.parse_file ----
    request,            \* the request: file type, state of the bytes, behaviour of parse
    parser_cls,         \* the class get_parser returned
    parser_calls,       \* the parser classes whose parse was called, in call order
    parse_result,       \* what parse_file returns
    response,           \* the gRPC status, details and chunks of the response
    spc,                \* position of the request handler
    \* ---- Docx._identify_page_paragraph_mapping ----
    total_paragraphs,   \* len(self.doc.paragraphs)
    page_breaks,        \* the indices of the paragraphs in which a page break is found
    max_page,           \* the argument max_page
    page_to_paragraphs, \* the returned dict: page number -> list of paragraph indices
    mpc,                \* position of the mapping
    \* ---- DocReaderServicer._convert_chunk_to_proto ----
    internal_chunk,     \* the argument `chunk`, an internal Chunk: content and images
    proto_chunk,        \* the protobuf Chunk message
    cpc,                \* position of the conversion
    \* ---- BaseParser.process_chunks_images (concurrency of the chunk tasks) ----
    parser_max_tasks,   \* self.max_concurrent_tasks
    chunks_semaphore,   \* free permits of the semaphore of process_chunks_images
    chunk_tasks,        \* one task per chunk: position, own semaphore, image tasks
    kpc,                \* position of process_chunks_images
    \* ---- the OCR and caption backends of one batch ----
    interface_type,     \* Caption.interface_type: "openai" or "ollama"
    no_response,        \* the backend call that never gets a response: stage and image
    \* ---- DocReaderServicer.ReadFromURL ----
    url_request,        \* the ReadFromURL request and what its page does
    chunking_config,    \* the ChunkingConfig built from request.read_config
    url_result,         \* what Parser.parse_url returned
    url_response,       \* the gRPC status, details and chunks of the response
    upc,                \* position of the request handler
    \* ---- the parser instance of BaseParser.parse ----
    parser_class,       \* the class of the parser
    self_file_name,     \* self.file_name, as the pair os.path.splitext returns
    self_file_type,     \* self.file_type
    \* ---- Docx.__call__ ----
    small_document      \* len(self.doc.paragraphs) < 30

parserVars == <<text, chunk_size, chunk_overlap, separators, max_chunks,
                enable_multimodal, file_ext, units, chunks, task_results, pc>>
docxVars == <<doc_paragraphs, para_page_mapping, docx_multimodal, futures,
              results, image_url_map, sorted_lines, all_lines, same_picture,
              temp_file, temp_images, upload_calls, dpc>>
imageVars == <<images_data, max_concurrent_tasks, caption_parser, semaphore,
               image_tasks, image_results, ipc>>
serverVars == <<request, parser_cls, parser_calls, parse_result, response, spc>>
mappingVars == <<total_paragraphs, page_breaks, max_page, page_to_paragraphs, mpc>>
protoVars == <<internal_chunk, proto_chunk, cpc>>
nestedVars == <<parser_max_tasks, chunks_semaphore, chunk_tasks, kpc>>
backendVars == <<interface_type, no_response>>
urlVars == <<url_request, chunking_config, url_result, url_response, upc>>
instanceVars == <<parser_class, self_file_name, self_file_type>>
pathVars == <<small_document>>
restVars == <<nestedVars, backendVars, urlVars, instanceVars, pathVars>>
vars == <<parserVars, docxVars, imageVars, serverVars, mappingVars, protoVars, restVars>>

-----------------------------------------------------------------------------
(* Bounds of the model *)

MaxTokens == 4          \* a generated text is the concatenation of at most this many tokens
MaxChunkSize == 3       \* chunk_size ranges over 1..MaxChunkSize
MaxParseTokens == 3     \* a text given to parse is made of at most this many tokens
MaxMaxChunks == 2       \* max_chunks ranges over 1..MaxMaxChunks
MaxParas == 3           \* a document has at most this many paragraphs
MaxPages == 2           \* and at most this many page groups

-----------------------------------------------------------------------------
(* Python string helpers *)

Min(S) == CHOOSE x \in S : \A y \in S : x <= y

At(s, i) == s[i + 1]                       \* s[i]
Slice(s, a, b) == SubSeq(s, a + 1, b)      \* s[a:b]

RECURSIVE Concat(_)
Concat(ss) == IF ss = <<>> THEN <<>> ELSE Head(ss) \o Concat(Tail(ss))   \* "".join(ss)

Whitespace == {" ", "\n"}
\* `not s.strip()`: s is empty or made of whitespace only
StripIsEmpty(s) == \A i \in 1..Len(s) : s[i] \in Whitespace

\* s[a:b] holds no newline: what the regular expression's `.` can run over
NoNewline(s, a, b) == \A i \in a..(b - 1) : At(s, i) # "\n"

-----------------------------------------------------------------------------
(* BaseParser._split_into_units *)

\* End offset of the match of link_pattern r"\[.*?\]\(.*?\)" that starts at
\* offset s of t, or -1 when the pattern does not match there.  Both `.*?`
\* are lazy and `.` does not match a newline.
LinkMatchEnd(t, s) ==
    IF s >= Len(t) \/ At(t, s) # "[" THEN -1
    ELSE LET J == {j \in (s + 1)..(Len(t) - 2) :
                      At(t, j) = "]" /\ At(t, j + 1) = "(" /\ NoNewline(t, s + 1, j)}
         IN  IF J = {} THEN -1
             ELSE LET j == Min(J)
                      K == {k \in (j + 2)..(Len(t) - 1) :
                               At(t, k) = ")" /\ NoNewline(t, j + 2, k)}
                  IN  IF K = {} THEN -1 ELSE Min(K) + 1

\* The same for image_pattern r"!\[.*?\]\(.*?\)"
ImageMatchEnd(t, s) ==
    IF s + 1 < Len(t) /\ At(t, s) = "!" THEN LinkMatchEnd(t, s + 1) ELSE -1

\* re.finditer: the non-overlapping matches, leftmost first, as (start, end)
RECURSIVE FindIter(_, _, _)
FindIter(t, pos, image) ==
    IF pos >= Len(t) THEN <<>>
    ELSE LET e == IF image THEN ImageMatchEnd(t, pos) ELSE LinkMatchEnd(t, pos)
         IN  IF e < 0 THEN FindIter(t, pos + 1, image)
             ELSE <<<<pos, e>>>> \o FindIter(t, e, image)

\* list.sort(key=lambda x: x[0]): stable insertion by start offset
RECURSIVE InsertByStart(_, _)
InsertByStart(r, sorted) ==
    IF sorted = <<>> THEN <<r>>
    ELSE IF Head(sorted)[1] <= r[1]
         THEN <<Head(sorted)>> \o InsertByStart(r, Tail(sorted))
         ELSE <<r>> \o sorted

RECURSIVE SortByStart(_)
SortByStart(rs) ==
    IF rs = <<>> THEN <<>>
    ELSE InsertByStart(rs[Len(rs)], SortByStart(SubSeq(rs, 1, Len(rs) - 1)))

\* the test of lines 678-682: r lies within another range of `ranges`
IsInner(r, ranges) ==
    \E k \in 1..Len(ranges) :
        LET r2 == ranges[k]
        IN  \/ (r[1] > r2[1] /\ r[2] < r2[2])
            \/ (r[1] > r2[1] /\ r[2] <= r2[2])
            \/ (r[1] >= r2[1] /\ r[2] < r2[2])

\* list.remove(r): drops the first element equal to r
RECURSIVE RemoveFirst(_, _)
RemoveFirst(ranges, r) ==
    IF ranges = <<>> THEN <<>>
    ELSE IF Head(ranges) = r THEN Tail(ranges)
         ELSE <<Head(ranges)>> \o RemoveFirst(Tail(ranges), r)

\* the loop of lines 675-687: iterates over a copy, removes from the live list
RECURSIVE RemoveInner(_, _, _)
RemoveInner(copy, i, ranges) ==
    IF i > Len(copy) THEN ranges
    ELSE RemoveInner(copy, i + 1,
                     IF IsInner(copy[i], ranges) THEN RemoveFirst(ranges, copy[i])
                     ELSE ranges)

\* protected_ranges as it stands at line 689
ProtectedRanges(t) ==
    LET sorted == SortByStart(FindIter(t, 0, TRUE) \o FindIter(t, 0, FALSE))
    IN  RemoveInner(sorted, 1, sorted)

\* index of the first separator of seps that matches s at offset i, 0 if none
\* (a regular-expression alternation tries its alternatives in order)
SepMatchAt(s, i, seps) ==
    LET M == {k \in 1..Len(seps) :
                 /\ i + Len(seps[k]) <= Len(s)
                 /\ Slice(s, i, i + Len(seps[k])) = seps[k]}
    IN  IF M = {} THEN 0 ELSE Min(M)

\* re.split("(sep1|sep2|...)", s): the pieces and, between them, the separators
RECURSIVE ReSplitFrom(_, _, _, _)
ReSplitFrom(s, seps, segStart, i) ==
    IF i >= Len(s) THEN <<Slice(s, segStart, Len(s))>>
    ELSE LET k == SepMatchAt(s, i, seps)
         IN  IF k = 0 THEN ReSplitFrom(s, seps, segStart, i + 1)
             ELSE <<Slice(s, segStart, i), seps[k]>>
                  \o ReSplitFrom(s, seps, i + Len(seps[k]), i + Len(seps[k]))

ReSplit(s, seps) == ReSplitFrom(s, seps, 0, 0)

\* lines 709-725 (and 749-763): a segment longer than chunk_size is split on "."
RECURSIVE SplitSegments(_, _)
SplitSegments(segments, cs) ==
    IF segments = <<>> THEN <<>>
    ELSE (IF Len(Head(segments)) <= cs THEN <<Head(segments)>>
          ELSE ReSplit(Head(segments), << <<".">> >>))
         \o SplitSegments(Tail(segments), cs)

\* the units of one free text segment
SplitFree(t, cs, seps) == SplitSegments(ReSplit(t, seps), cs)

\* the loop of lines 695-736 over the protected ranges
RECURSIVE UnitsLoop(_, _, _, _, _, _, _)
UnitsLoop(t, cs, seps, ranges, i, last_end, acc) ==
    IF i > Len(ranges) THEN [units |-> acc, last_end |-> last_end]
    ELSE LET start == ranges[i][1]
             end == ranges[i][2]
             pre_text == Slice(t, last_end, start)
         IN  IF start <= last_end
             THEN UnitsLoop(t, cs, seps, ranges, i + 1, last_end, acc)
             ELSE IF StripIsEmpty(pre_text)
             THEN UnitsLoop(t, cs, seps, ranges, i + 1, last_end, acc)
             ELSE UnitsLoop(t, cs, seps, ranges, i + 1, end,
                            acc \o SplitFree(pre_text, cs, seps) \o <<Slice(t, start, end)>>)

\* _split_into_units(text) for a parser with chunk_size cs and separators seps
SplitIntoUnits(t, cs, seps) ==
    LET r == UnitsLoop(t, cs, seps, ProtectedRanges(t), 1, 0, <<>>)
        post_text == Slice(t, r.last_end, Len(t))
    IN  IF r.last_end < Len(t) /\ ~StripIsEmpty(post_text)
        THEN r.units \o SplitFree(post_text, cs, seps)
        ELSE r.units

-----------------------------------------------------------------------------
(* BaseParser.chunk_text *)

Chunk(seq, content, start, end) ==
    [seq |-> seq, content |-> content, start |-> start, end |-> end, images |-> <<>>]

SeqRange(s) == {s[i] : i \in 1..Len(s)}

\* variant of AllOfSeparator: the unit as a whole is one of the separators
AllOfSeparatorWholeUnit(u, seps) == u \in SeqRange(seps)

\* lines 872-876: every character of u is an element of self.separators
AllOfSeparator(u, seps) == \A i \in 1..Len(u) : <<u[i]>> \in SeqRange(seps)

\* variant of OverlapFromEnd: collects units until the target is reached or exceeded
RECURSIVE OverlapFromEndReachOrExceed(_, _, _, _)
OverlapFromEndReachOrExceed(current_chunk, k, overlap_target, acc) ==
    IF k = 0 THEN acc
    ELSE IF acc.size >= overlap_target THEN acc
    ELSE OverlapFromEndReachOrExceed(current_chunk, k - 1, overlap_target,
                                     [units |-> <<current_chunk[k]>> \o acc.units,
                                      size |-> acc.size + Len(current_chunk[k])])

\* lines 853-866: whole units from the end of the closed chunk, up to the target
RECURSIVE OverlapFromEnd(_, _, _, _)
OverlapFromEnd(current_chunk, k, overlap_target, acc) ==
    IF k = 0 THEN acc
    ELSE IF acc.size + Len(current_chunk[k]) > overlap_target THEN acc
    ELSE OverlapFromEnd(current_chunk, k - 1, overlap_target,
                        [units |-> <<current_chunk[k]>> \o acc.units,
                         size |-> acc.size + Len(current_chunk[k])])

\* lines 869-885: leading units made of separator characters leave the overlap
RECURSIVE DropLeadingSeparators(_, _)
DropLeadingSeparators(ov, seps) ==
    IF ov.units = <<>> THEN ov
    ELSE IF AllOfSeparator(Head(ov.units), seps)
         THEN DropLeadingSeparators([units |-> Tail(ov.units),
                                     size |-> ov.size - Len(Head(ov.units))], seps)
         ELSE ov

\* variant of NextBuffer: the start of the next chunk is computed from the
\* overlap size before the separator units were dropped
NextBufferStartBeforeDrop(st, chunk_text, co, seps) ==
    IF co > 0
    THEN LET overlap_target == IF co < Len(chunk_text) THEN co ELSE Len(chunk_text)
             collected == OverlapFromEnd(st.current_chunk, Len(st.current_chunk),
                                         overlap_target, [units |-> <<>>, size |-> 0])
             ov == DropLeadingSeparators(collected, seps)
         IN  [current_chunk |-> ov.units,
              current_size |-> ov.size,
              current_start |-> st.current_start + Len(chunk_text) - collected.size]
    ELSE [current_chunk |-> <<>>,
          current_size |-> 0,
          current_start |-> st.current_start + Len(chunk_text)]

\* lines 845-898: the buffer after a chunk with text chunk_text was closed
NextBuffer(st, chunk_text, co, seps) ==
    IF co > 0
    THEN LET overlap_target == IF co < Len(chunk_text) THEN co ELSE Len(chunk_text)
             ov == DropLeadingSeparators(
                       OverlapFromEnd(st.current_chunk, Len(st.current_chunk),
                                      overlap_target, [units |-> <<>>, size |-> 0]),
                       seps)
         IN  [current_chunk |-> ov.units,
              current_size |-> ov.size,
              current_start |-> st.current_start + Len(chunk_text) - ov.size]
    ELSE [current_chunk |-> <<>>,
          current_size |-> 0,
          current_start |-> st.current_start + Len(chunk_text)]

\* one iteration of the loop of lines 827-904, for unit us[i]
ChunkStep(st, unit, cs, co, seps) ==
    LET closes == st.current_size + Len(unit) > cs /\ st.current_chunk # <<>>
        chunk_text == Concat(st.current_chunk)
        nb == IF closes THEN NextBuffer(st, chunk_text, co, seps)
              ELSE [current_chunk |-> st.current_chunk,
                    current_size |-> st.current_size,
                    current_start |-> st.current_start]
    IN  [chunks |-> IF closes
                    THEN Append(st.chunks,
                                Chunk(Len(st.chunks), chunk_text, st.current_start,
                                      st.current_start + Len(chunk_text)))
                    ELSE st.chunks,
         current_chunk |-> Append(nb.current_chunk, unit),
         current_size |-> nb.current_size + Len(unit),
         current_start |-> nb.current_start]

RECURSIVE ChunkLoop(_, _, _, _, _, _)
ChunkLoop(us, i, st, cs, co, seps) ==
    IF i > Len(us) THEN st
    ELSE ChunkLoop(us, i + 1, ChunkStep(st, us[i], cs, co, seps), cs, co, seps)

\* chunk_text over a given unit list (lines 822-920)
ChunkUnits(us, cs, co, seps) ==
    LET st == ChunkLoop(us, 1,
                        [chunks |-> <<>>, current_chunk |-> <<>>,
                         current_size |-> 0, current_start |-> 0],
                        cs, co, seps)
        chunk_text == Concat(st.current_chunk)
    IN  IF st.current_chunk # <<>>
        THEN Append(st.chunks,
                    Chunk(Len(st.chunks), chunk_text, st.current_start,
                          st.current_start + Len(chunk_text)))
        ELSE st.chunks

\* chunk_text(text)
ChunkText(t, cs, co, seps) ==
    IF t = <<>> THEN <<>> ELSE ChunkUnits(SplitIntoUnits(t, cs, seps), cs, co, seps)

-----------------------------------------------------------------------------
(* BaseParser.parse and process_chunks_images *)

\* the match of r'!\[([^\]]*)\]\(([^)]+)\)' at offset s of t, as image
\* information (lines 947-953), or the record with end = -1 when there is none
ChunkImageAt(t, s) ==
    LET none == [original_url |-> <<>>, start |-> s, end |-> -1]
    IN  IF ~(s + 1 < Len(t) /\ At(t, s) = "!" /\ At(t, s + 1) = "[") THEN none
        ELSE LET J == {j \in (s + 2)..(Len(t) - 1) : At(t, j) = "]"}
             IN  IF J = {} THEN none
                 ELSE LET j == Min(J)
                          K == {k \in (j + 2)..(Len(t) - 1) : At(t, k) = ")"}
                      IN  IF ~(j + 1 < Len(t) /\ At(t, j + 1) = "(") THEN none
                          ELSE IF K = {} \/ Min(K) = j + 2 THEN none
                          ELSE [original_url |-> Slice(t, j + 2, Min(K)),
                                start |-> s, end |-> Min(K) + 1]

\* extract_images_from_chunk: re.finditer over the chunk's content
RECURSIVE ExtractImagesFrom(_, _)
ExtractImagesFrom(t, pos) ==
    IF pos >= Len(t) THEN <<>>
    ELSE LET m == ChunkImageAt(t, pos)
         IN  IF m.end < 0 THEN ExtractImagesFrom(t, pos + 1)
             ELSE <<m>> \o ExtractImagesFrom(t, m.end)

ExtractImages(content) == ExtractImagesFrom(content, 0)

\* lines 1113-1115 and 1125-1129: url_to_info_map keeps, for each URL, the last
\* image information holding it; that one gets "cos_url" when the URL resolved
HasCosUrl(images_info, i, ok_urls) ==
    /\ images_info[i].original_url \in ok_urls
    /\ \A j \in (i + 1)..Len(images_info) :
           images_info[j].original_url # images_info[i].original_url

\* lines 1157-1160: the image informations that carry "cos_url", in order
RECURSIVE ProcessedImages(_, _, _)
ProcessedImages(images_info, i, ok_urls) ==
    IF i > Len(images_info) THEN <<>>
    ELSE (IF HasCosUrl(images_info, i, ok_urls) THEN <<images_info[i]>> ELSE <<>>)
         \o ProcessedImages(images_info, i + 1, ok_urls)

\* process_chunk_images_async returning normally: the chunk it returns when the
\* URLs of ok_urls were downloaded and stored and the others were not
ProcessChunkImages(chunk, ok_urls) ==
    LET images_info == ExtractImages(chunk.content)
        processed == ProcessedImages(images_info, 1, ok_urls)
    IN  IF images_info = <<>> \/ processed = <<>> THEN chunk
        ELSE [chunk EXCEPT !.images = processed]

\* variant of CapChunks: the cap keeps the last m chunks
CapChunksKeepsLast(cl, m) == IF Len(cl) > m THEN SubSeq(cl, Len(cl) - m + 1, Len(cl)) ELSE cl

\* lines 610-612: the cap on the number of returned chunks
CapChunks(cl, m) == IF Len(cl) > m THEN SubSeq(cl, 1, m) ELSE cl

\* lines 628-634
\* str.lower() on the file types of the requests
Lower(file_type) ==
    CASE file_type = "DOCX" -> "docx"
      [] file_type = "Pdf" -> "pdf"
      [] file_type = "MD" -> "md"
      [] file_type = "Txt" -> "txt"
      [] file_type = "PNG" -> "png"
      [] file_type = "XYZ" -> "xyz"
      [] file_type = ".MD" -> ".md"
      [] OTHER -> file_type

AllowedTypes ==
    {".pdf", ".md", ".markdown", ".doc", ".docx",
     ".jpg", ".jpeg", ".png", ".gif", ".bmp", ".tiff", ".webp"}

\* variant of GatherChunks: the chunks of the tasks that raised are appended
\* after the chunks of the tasks that returned
GatherChunksFailedLast(res, cl, i) ==
    LET tasks == [k \in 1..Len(res) |-> k]
        ok == SelectSeq(tasks, LAMBDA k : res[k].status # "exception")
        failed == SelectSeq(tasks, LAMBDA k : res[k].status = "exception")
    IN  [k \in 1..Len(ok) |-> res[ok[k]].chunk] \o [k \in 1..Len(failed) |-> cl[failed[k]]]

\* lines 1214-1222: the gathered results, in task order; a task that raised
\* contributes the original chunk
RECURSIVE GatherChunks(_, _, _)
GatherChunks(res, cl, i) ==
    IF i > Len(res) THEN <<>>
    ELSE (IF res[i].status = "exception"
          THEN (IF i - 1 < Len(cl) THEN <<cl[i]>> ELSE <<>>)
          ELSE <<res[i].chunk>>)
         \o GatherChunks(res, cl, i + 1)

\* variant of ProcessedChunks: the chunk of a task that raised is left out
ProcessedChunksDropFailed(res, cl) ==
    LET ok == SelectSeq(res, LAMBDA r : r.status # "exception")
    IN  [k \in 1..Len(ok) |-> ok[k].chunk]

ProcessedChunks(res, cl) == GatherChunks(res, cl, 1)

-----------------------------------------------------------------------------
(* Docx: page workers and the reassembly of their results (docx_parser.py) *)

(* A paragraph is of kind "T" (text), "I" (an image that is extracted) or     *)
(* "E" (neither).  A text is the sequence of the indices of the paragraphs  *)
(* whose text was appended to it; a joined text is the sequence of its      *)
(* parts.  The file _save_image_to_temp writes for image idx of a page is   *)
(* the path [page, idx]; the URL upload_file returns for a path is unique   *)
(* to it, so the markdown reference of an uploaded image is named by its    *)
(* path.                                                                    *)

NoPath == [page |-> -1, idx |-> -1]

TextItem(paras) == [type |-> "text", paras |-> paras, path |-> NoPath]
ImageItem(para, path) == [type |-> "image", paras |-> <<para>>, path |-> path]

\* _extract_page_content_in_process, lines 1429-1467: the content sequence
RECURSIVE ContentLoop(_, _, _, _, _, _)
ContentLoop(doc, paragraphs, i, multimodal, current_text, content_sequence) ==
    IF i > Len(paragraphs)
    THEN (IF current_text # <<>>
          THEN Append(content_sequence, TextItem(current_text))
          ELSE content_sequence)
    ELSE LET para_idx == paragraphs[i]
             kind == IF para_idx >= Len(doc) THEN "E" ELSE doc[para_idx + 1]
             txt == IF kind = "T" THEN Append(current_text, para_idx) ELSE current_text
         IN  IF multimodal /\ kind = "I"
             THEN ContentLoop(doc, paragraphs, i + 1, multimodal, <<>>,
                              (IF txt # <<>>
                               THEN Append(content_sequence, TextItem(txt))
                               ELSE content_sequence)
                              \o <<ImageItem(para_idx, NoPath)>>)
             ELSE ContentLoop(doc, paragraphs, i + 1, multimodal, txt, content_sequence)

ContentSequence(doc, paragraphs, multimodal) ==
    ContentLoop(doc, paragraphs, 1, multimodal, <<>>, <<>>)

\* lines 1477-1486: the items of one type, in order
RECURSIVE ItemsOfType(_, _)
ItemsOfType(content_sequence, type) ==
    IF content_sequence = <<>> THEN <<>>
    ELSE (IF Head(content_sequence).type = type THEN <<Head(content_sequence)>> ELSE <<>>)
         \o ItemsOfType(Tail(content_sequence), type)

\* lines 1327-1331: the paths of the images that were saved; failed_saves are
\* the indices i for which _save_image_to_temp returned None
RECURSIVE SavedPaths(_, _, _, _)
SavedPaths(page_num, n_images, i, failed_saves) ==
    IF i >= n_images THEN <<>>
    ELSE (IF i \in failed_saves THEN <<>> ELSE << [page |-> page_num, idx |-> i] >>)
         \o SavedPaths(page_num, n_images, i + 1, failed_saves)

\* lines 1338-1344: the content sequence with the image paths put in by count
RECURSIVE ProcessedContent(_, _, _)
ProcessedContent(content_sequence, image_paths, temp_image_index) ==
    IF content_sequence = <<>> THEN <<>>
    ELSE LET item == Head(content_sequence)
         IN  IF item.type = "text"
             THEN <<item>> \o ProcessedContent(Tail(content_sequence), image_paths,
                                               temp_image_index)
             ELSE IF temp_image_index < Len(image_paths)
             THEN << [item EXCEPT !.path = image_paths[temp_image_index + 1]] >>
                  \o ProcessedContent(Tail(content_sequence), image_paths,
                                      temp_image_index + 1)
             ELSE ProcessedContent(Tail(content_sequence), image_paths, temp_image_index)

\* process_page_multiprocess, lines 1288-1361: the page_lines a worker returns.
\* loads: the document loaded in the worker; failed_saves as above.  With
\* enable_multimodal false, line 1347 reads image_paths, which was never
\* assigned: the exception is caught at line 1357 and [] is returned.
ProcessPage(doc, page_num, paragraphs, multimodal, loads, failed_saves) ==
    IF ~loads \/ paragraphs = <<>> THEN <<>>
    ELSE IF ~multimodal THEN <<>>
    ELSE LET content_sequence == ContentSequence(doc, paragraphs, multimodal)
             texts == ItemsOfType(content_sequence, "text")
             images == ItemsOfType(content_sequence, "image")
             image_paths == SavedPaths(page_num, Len(images), 0, failed_saves)
         IN  << [text |-> [k \in 1..Len(texts) |-> texts[k].paras],
                 image_paths |-> image_paths,
                 page_num |-> page_num,
                 processed_content |-> ProcessedContent(content_sequence, image_paths, 0)] >>

\* line 948: the markdown reference "![](url)" of the image uploaded from path
MarkdownImage(path) == [type |-> "image", paras |-> <<>>, path |-> path]

\* lines 959-1000: the processed line of one result line; a part of the final
\* text is a text item or the markdown reference of an uploaded image
RECURSIVE CombinedParts(_, _)
CombinedParts(processed_content, url_map) ==
    IF processed_content = <<>> THEN <<>>
    ELSE LET item == Head(processed_content)
         IN  (IF item.type = "text" THEN <<item>>
              ELSE IF item.path \in url_map THEN <<MarkdownImage(item.path)>>
              ELSE <<>>)
             \o CombinedParts(Tail(processed_content), url_map)

RECURSIVE LegacyUrls(_, _)
LegacyUrls(image_paths, url_map) ==
    IF image_paths = <<>> THEN <<>>
    ELSE (IF Head(image_paths) \in url_map
          THEN <<MarkdownImage(Head(image_paths))>>
          ELSE <<>>)
         \o LegacyUrls(Tail(image_paths), url_map)

ProcessedLine(line_data, url_map) ==
    IF line_data.processed_content # <<>>
    THEN [text |-> CombinedParts(line_data.processed_content, url_map),
          page_num |-> line_data.page_num]
    ELSE [text |-> [k \in 1..Len(line_data.text) |-> TextItem(line_data.text[k])]
                   \o LegacyUrls(line_data.image_paths, url_map),
          page_num |-> line_data.page_num]

\* sorted(processed_lines, key=lambda x: x[3]), line 1003: stable, by page number
RECURSIVE InsertByPage(_, _)
InsertByPage(line, sorted) ==
    IF sorted = <<>> THEN <<line>>
    ELSE IF Head(sorted).page_num <= line.page_num
         THEN <<Head(sorted)>> \o InsertByPage(line, Tail(sorted))
         ELSE <<line>> \o sorted

\* variant of SortByPage: the lines stay in the order the futures completed
SortByPageCompletionOrder(lines) == lines

RECURSIVE SortByPage(_)
SortByPage(lines) ==
    IF lines = <<>> THEN <<>>
    ELSE InsertByPage(lines[Len(lines)], SortByPage(SubSeq(lines, 1, Len(lines) - 1)))

\* every temporary image path named by the result lines
PathsOf(lines) ==
    UNION {SeqRange(lines[k].image_paths) : k \in 1..Len(lines)}

-----------------------------------------------------------------------------
(* Inputs *)

\* A markdown link span, longer than every chunk size of the generated inputs
\* and holding a "." (so that a split of it would show)
LinkSpan == <<"[", "]", "(", ".", ")">>

\* the pieces generated texts are made of; "!" before LinkSpan makes an image span
Tokens == {<<"a">>, <<" ">>, <<"\n">>, <<".">>, <<"!">>, LinkSpan}

TokenSeqs == UNION {[1..k -> Tokens] : k \in 0..MaxTokens}

Texts == {Concat(ts) : ts \in TokenSeqs}

SeparatorLists == { << <<"\n">> >>, << <<"\n", "\n">>, <<"\n">> >> }

\* the chunking configurations of InitChunk satisfy 0 <= chunk_overlap < chunk_size

\* the concrete scenario: "AAAA\n\nBBBB\n\nCCCC", chunkSize 9, chunkOverlap 4, ["\n\n"]
ScenarioText ==
    <<"A", "A", "A", "A", "\n", "\n", "B", "B", "B", "B", "\n", "\n", "C", "C", "C", "C">>

ScenarioInput ==
    [text |-> ScenarioText, chunk_size |-> 9, chunk_overlap |-> 4,
     separators |-> << <<"\n", "\n">> >>]


-----------------------------------------------------------------------------
(* Docx idle state: the variables of the decomposition when no document is processed *)

DocxIdle ==
    /\ doc_paragraphs = <<>>
    /\ para_page_mapping = <<>>
    /\ docx_multimodal = FALSE
    /\ futures = <<>>
    /\ results = <<>>
    /\ image_url_map = {}
    /\ sorted_lines = <<>>
    /\ all_lines = <<>>
    /\ same_picture = FALSE
    /\ temp_file = FALSE
    /\ temp_images = {}
    /\ upload_calls = <<>>
    /\ dpc = "idle"

(* Idle state of the image enrichment: no batch is processed *)
ImagesIdle ==
    /\ images_data = <<>>
    /\ max_concurrent_tasks = 5
    /\ caption_parser = FALSE
    /\ semaphore = 0
    /\ image_tasks = <<>>
    /\ image_results = <<>>
    /\ ipc = "idle"

(* Idle state of the server: no request is handled *)
ServerIdle ==
    /\ request = [file_type |-> "", file_name_ext |-> "", content |-> "valid",
                  text |-> <<>>, parse |-> "returns", chunk_size |-> 0,
                  chunk_overlap |-> 0]
    /\ parser_cls = "None"
    /\ parser_calls = <<>>
    /\ parse_result = [kind |-> "None", chunks |-> <<>>]
    /\ response = [code |-> "OK", details |-> "", chunks |-> <<>>]
    /\ spc = "idle"

(* Idle state of the page mapping: no document is mapped *)
MappingIdle ==
    /\ total_paragraphs = 0
    /\ page_breaks = {}
    /\ max_page = 0
    /\ page_to_paragraphs = <<>>
    /\ mpc = "idle"

(* Idle state of the conversion: no chunk is converted *)
ProtoIdle ==
    /\ internal_chunk = [content |-> [none |-> TRUE, s |-> <<>>], images |-> <<>>]
    /\ proto_chunk = [content |-> <<>>, images |-> <<>>]
    /\ cpc = "idle"

(* Idle state of process_chunks_images: no chunk list is processed *)
NestedIdle ==
    /\ parser_max_tasks = 0
    /\ chunks_semaphore = 0
    /\ chunk_tasks = <<>>
    /\ kpc = "idle"

(* Every backend responds *)
BackendIdle ==
    /\ interface_type = "openai"
    /\ no_response = [stage |-> "none", url |-> 0]

(* Idle state of ReadFromURL: no request is handled *)
UrlIdle ==
    /\ url_request = <<>>
    /\ chunking_config = <<>>
    /\ url_result = [kind |-> "None", chunks |-> <<>>]
    /\ url_response = [code |-> "OK", details |-> "", chunks |-> <<>>]
    /\ upc = "idle"

(* No parser instance *)
InstanceIdle ==
    /\ parser_class = "None"
    /\ self_file_name = [root |-> "", ext |-> ""]
    /\ self_file_type = ""

(* The document goes to the worker pool *)
PathIdle == small_document = FALSE

RestIdle == NestedIdle /\ BackendIdle /\ UrlIdle /\ InstanceIdle /\ PathIdle

-----------------------------------------------------------------------------
(* Specification of chunk_text on its own *)

InitChunk ==
    /\ \/ \E t \in Texts, cs \in 1..MaxChunkSize, seps \in SeparatorLists :
             \E co \in 0..(cs - 1) :
                /\ text = t
                /\ chunk_size = cs
                /\ chunk_overlap = co
                /\ separators = seps
       \/ /\ text = ScenarioInput.text
          /\ chunk_size = ScenarioInput.chunk_size
          /\ chunk_overlap = ScenarioInput.chunk_overlap
          /\ separators = ScenarioInput.separators
    /\ max_chunks = 0
    /\ enable_multimodal = FALSE
    /\ file_ext = ".txt"
    /\ units = <<>>
    /\ chunks = <<>>
    /\ task_results = <<>>
    /\ pc = "start"
    /\ DocxIdle
    /\ ImagesIdle
    /\ ServerIdle
    /\ MappingIdle
    /\ ProtoIdle
    /\ RestIdle

\* chunk_text(text): the units of line 819 and the returned chunk list
ChunkTextCall ==
    /\ pc = "start"
    /\ units' = (IF text = <<>> THEN <<>>
                 ELSE SplitIntoUnits(text, chunk_size, separators))
    /\ chunks' = ChunkUnits(units', chunk_size, chunk_overlap, separators)
    /\ pc' = "chunked"
    /\ UNCHANGED <<text, chunk_size, chunk_overlap, separators, max_chunks,
                   enable_multimodal, file_ext, task_results>>
    /\ UNCHANGED <<docxVars, imageVars, serverVars, mappingVars, protoVars, restVars>>

NextChunk == ChunkTextCall

SpecChunk == InitChunk /\ [][NextChunk]_vars

-----------------------------------------------------------------------------
(* Claims about _split_into_units and chunk_text, checked under SpecChunk *)

Chunked == pc = "chunked"

\* offset of unit k in the concatenation of the units
UnitStart(k) == Len(Concat(SubSeq(units, 1, k - 1)))

\* the shared character run of chunks k and k+1
Shared(k) == chunks[k].end - chunks[k + 1].start

\* C1: if every Unit has length <= chunkSize, every emitted Chunk's content
\* has length <= chunkSize, chunks seeded with overlap Units included.
C1_ChunksWithinChunkSize ==
    (Chunked /\ \A k \in 1..Len(units) : Len(units[k]) <= chunk_size)
        => \A k \in 1..Len(chunks) : Len(chunks[k].content) <= chunk_size

\* C2: concatenating the Units returned by _split_into_units reproduces the
\* text exactly.
C2_UnitsRoundTrip == Chunked => Concat(units) = text

\* C3: every markdown image span of the text that is longer than chunkSize is
\* one Unit of the list, and no Unit is a proper fragment of it.
C3_ImageSpanIsOneUnit ==
    Chunked =>
        \A m \in SeqRange(FindIter(text, 0, TRUE)) :
            m[2] - m[1] > chunk_size =>
                /\ \E k \in 1..Len(units) :
                       UnitStart(k) = m[1] /\ Len(units[k]) = m[2] - m[1]
                /\ \A k \in 1..Len(units) :
                       \/ UnitStart(k) + Len(units[k]) <= m[1]
                       \/ UnitStart(k) >= m[2]
                       \/ (UnitStart(k) = m[1] /\ Len(units[k]) = m[2] - m[1])

\* C4: the intervals [start, end) of the Chunks cover the text from 0 to
\* len(text) without a gap: first start = 0, last end = len(text), and the
\* start of chunk k+1 is <= the end of chunk k.
C4_ChunksCoverText ==
    (Chunked /\ text # <<>>) =>
        /\ chunks # <<>>
        /\ chunks[1].start = 0
        /\ chunks[Len(chunks)].end = Len(text)
        /\ \A k \in 1..(Len(chunks) - 1) : chunks[k + 1].start <= chunks[k].end

\* C5: every emitted Chunk satisfies content == text[start:end], so that
\* end - start == len(content).
C5_ContentIsTextSlice ==
    Chunked =>
        \A k \in 1..Len(chunks) :
            /\ 0 <= chunks[k].start
            /\ chunks[k].start <= chunks[k].end
            /\ chunks[k].end <= Len(text)
            /\ chunks[k].content = Slice(text, chunks[k].start, chunks[k].end)
            /\ chunks[k].end - chunks[k].start = Len(chunks[k].content)

\* C5 witness: chunk k+1 starts with carried-over Units of chunk k, and the
\* lone separator Unit "\n" right before the carried-over run fitted the
\* overlap target, so it was collected into the seed and then dropped from it.
C5_Witness ==
    /\ Chunked
    /\ <<"\n">> \in SeqRange(separators)
    /\ \E k \in 1..(Len(chunks) - 1) :
          LET c == chunks[k].content
              n == Len(c) - Shared(k)
          IN  /\ Shared(k) > 0
              /\ Shared(k) < chunk_overlap
              /\ n >= 1
              /\ c[n] = "\n"
              /\ (n = 1 \/ c[n - 1] # "\n")

\* the chunk list the scenario is said to give
ScenarioClaimedChunks ==
    << Chunk(0, <<"A", "A", "A", "A", "\n", "\n", "B", "B", "B", "B">>, 0, 10),
       Chunk(1, <<"B", "B", "B", "B", "\n", "\n", "C", "C", "C", "C">>, 6, 16) >>

\* the chunk list chunk_text returns for the scenario
ScenarioActualChunks ==
    << Chunk(0, <<"A", "A", "A", "A", "\n", "\n">>, 0, 6),
       Chunk(1, <<"\n", "\n", "B", "B", "B", "B", "\n", "\n">>, 4, 12),
       Chunk(2, <<"\n", "\n", "C", "C", "C", "C">>, 10, 16) >>

IsScenario ==
    /\ text = ScenarioText
    /\ chunk_size = 9
    /\ chunk_overlap = 4
    /\ separators = << <<"\n", "\n">> >>

C7_OverlapBound ==
    Chunked =>
        \A k \in 1..(Len(chunks) - 1) :
            /\ 0 <= Shared(k)
            /\ Shared(k) <= chunk_overlap
            /\ (chunk_overlap = 0 => chunks[k + 1].start = chunks[k].end)

\* C7 witness: two consecutive chunks that share exactly chunkOverlap > 0 characters
C7_Witness ==
    /\ Chunked
    /\ chunk_overlap > 0
    /\ \E k \in 1..(Len(chunks) - 1) : Shared(k) = chunk_overlap

-----------------------------------------------------------------------------
(* Specification of BaseParser.parse *)

ImageSpan == <<"!">> \o LinkSpan

ParseTokens == {<<"a">>, <<"\n">>, ImageSpan}

ParseTexts == {Concat(ts) : ts \in UNION {[1..k -> ParseTokens] : k \in 0..MaxParseTokens}}

\* base_parser.py, lines 616-624: the extension parse looks up in allowed_types
FileExtOf(name, type) ==
    IF name.root # "" \/ name.ext # "" THEN Lower(name.ext)
    ELSE IF type # "" THEN Lower(type)
    ELSE ""

\* __init__, line 127: self.file_type = file_type or os.path.splitext(file_name)[1]
InstanceFileType(name, type) == IF type # "" THEN type ELSE name.ext

\* the parser instances: those Parser.parse_file creates for a request's
\* file_name and file_type (parser.py, lines 133-143) and the WebParser that
\* Parser.parse_url creates with file_name = title (web_parser.py, line 19)
ParserInstances ==
    {[cls |-> "MarkdownParser", file_name |-> [root |-> "a", ext |-> ".md"],
      file_type |-> InstanceFileType([root |-> "a", ext |-> ".md"], "md")],
     [cls |-> "TextParser", file_name |-> [root |-> "a", ext |-> ".txt"],
      file_type |-> InstanceFileType([root |-> "a", ext |-> ".txt"], "txt")],
     [cls |-> "PDFParser", file_name |-> [root |-> "", ext |-> ""],
      file_type |-> InstanceFileType([root |-> "", ext |-> ""], "pdf")],
     [cls |-> "WebParser", file_name |-> [root |-> "T", ext |-> ".MD"],
      file_type |-> InstanceFileType([root |-> "T", ext |-> ".MD"], "")]}

\* a text in which one image is referenced twice, with a chunk size that
\* holds both references
RepeatedImageText == ImageSpan \o ImageSpan

InitParse ==
    /\ \/ \E t \in ParseTexts, cs \in 1..MaxChunkSize, m \in 1..MaxMaxChunks :
             \E co \in 0..(cs - 1) :
                /\ text = t
                /\ chunk_size = cs
                /\ chunk_overlap = co
                /\ max_chunks = m
       \/ /\ text = RepeatedImageText
          /\ chunk_size = Len(RepeatedImageText)
          /\ chunk_overlap = 0
          /\ max_chunks = 1
    /\ separators = << <<"\n">> >>
    /\ enable_multimodal \in BOOLEAN
    /\ \E inst \in ParserInstances :
          /\ parser_class = inst.cls
          /\ self_file_name = inst.file_name
          /\ self_file_type = inst.file_type
          /\ file_ext = FileExtOf(inst.file_name, inst.file_type)
    /\ units = <<>>
    /\ chunks = <<>>
    /\ task_results = <<>>
    /\ pc = "parse"
    /\ DocxIdle
    /\ ImagesIdle
    /\ ServerIdle
    /\ MappingIdle
    /\ ProtoIdle
    /\ NestedIdle
    /\ BackendIdle
    /\ UrlIdle
    /\ PathIdle

\* parse, lines 598-638: chunk the text, cap the list and, when multimodal is
\* enabled for an allowed file type, start one image task per chunk
\* (process_chunks_images, lines 1179-1211)
ParseBegin ==
    /\ pc = "parse"
    /\ LET capped == CapChunks(ChunkText(text, chunk_size, chunk_overlap, separators),
                               max_chunks)
       IN  /\ chunks' = capped
           /\ IF enable_multimodal /\ file_ext \in AllowedTypes /\ capped # <<>>
              THEN /\ task_results' = [i \in 1..Len(capped) |->
                                          [status |-> "pending", chunk |-> capped[i]]]
                   /\ pc' = "gather"
              ELSE /\ task_results' = <<>>
                   /\ pc' = "returned"
    /\ units' = (IF text = <<>> THEN <<>>
                 ELSE SplitIntoUnits(text, chunk_size, separators))
    /\ UNCHANGED <<text, chunk_size, chunk_overlap, separators, max_chunks,
                   enable_multimodal, file_ext>>
    /\ UNCHANGED <<docxVars, imageVars, serverVars, mappingVars, protoVars, restVars>>

\* the URLs of the image references of chunk i
ChunkUrls(i) ==
    LET info == ExtractImages(chunks[i].content)
    IN  {info[k].original_url : k \in 1..Len(info)}

\* the task of chunk i returns (process_chunk_images_async, lines 1103-1166):
\* it sets chunk.images on the chunk object and returns that object
TaskReturn(i) ==
    /\ pc = "gather"
    /\ task_results[i].status = "pending"
    /\ \E ok_urls \in SUBSET ChunkUrls(i) :
          LET c == ProcessChunkImages(chunks[i], ok_urls)
          IN  /\ chunks' = [chunks EXCEPT ![i] = c]
              /\ task_results' = [task_results EXCEPT ![i] = [status |-> "ok", chunk |-> c]]
    /\ UNCHANGED <<text, chunk_size, chunk_overlap, separators, max_chunks,
                   enable_multimodal, file_ext, units, pc>>
    /\ UNCHANGED <<docxVars, imageVars, serverVars, mappingVars, protoVars, restVars>>

\* the task of chunk i raises; gather keeps the exception as its result
TaskRaise(i) ==
    /\ pc = "gather"
    /\ task_results[i].status = "pending"
    /\ task_results' = [task_results EXCEPT ![i].status = "exception"]
    /\ UNCHANGED <<text, chunk_size, chunk_overlap, separators, max_chunks,
                   enable_multimodal, file_ext, units, chunks, pc>>
    /\ UNCHANGED <<docxVars, imageVars, serverVars, mappingVars, protoVars, restVars>>

\* gather has every result: lines 1211-1224 and 1240-1243, then parse returns
GatherReturn ==
    /\ pc = "gather"
    /\ \A i \in 1..Len(task_results) : task_results[i].status # "pending"
    /\ chunks' = ProcessedChunks(task_results, chunks)
    /\ pc' = "returned"
    /\ UNCHANGED <<text, chunk_size, chunk_overlap, separators, max_chunks,
                   enable_multimodal, file_ext, units, task_results>>
    /\ UNCHANGED <<docxVars, imageVars, serverVars, mappingVars, protoVars, restVars>>

\* the run of the event loop raises: lines 1244-1246 return the chunk list as it is
RunRaises ==
    /\ pc = "gather"
    /\ pc' = "returned"
    /\ UNCHANGED <<text, chunk_size, chunk_overlap, separators, max_chunks,
                   enable_multimodal, file_ext, units, chunks, task_results>>
    /\ UNCHANGED <<docxVars, imageVars, serverVars, mappingVars, protoVars, restVars>>

NextParse ==
    \/ ParseBegin
    \/ \E i \in 1..Len(task_results) : TaskReturn(i)
    \/ \E i \in 1..Len(task_results) : TaskRaise(i)
    \/ GatherReturn
    \/ RunRaises

SpecParse == InitParse /\ [][NextParse]_vars

Returned == pc = "returned"

\* C8: in the chunk list parse returns (after chunking, the max_chunks cap and
\* image processing) the seq values are 0, 1, ..., n-1 in list order and the
\* start offsets are non-decreasing.
C8_SeqDenseStartMonotonic ==
    Returned =>
        /\ \A i \in 1..Len(chunks) : chunks[i].seq = i - 1
        /\ \A i \in 1..(Len(chunks) - 1) : chunks[i].start <= chunks[i + 1].start

\* C8 witness: a returned list of at least two chunks that was cut by the cap
\* and went through image processing, where one task raised and another one
\* attached an image to its chunk.
C8_Witness ==
    /\ Returned
    /\ Len(chunks) >= 2
    /\ Len(ChunkText(text, chunk_size, chunk_overlap, separators)) > max_chunks
    /\ \A i \in 1..Len(task_results) : task_results[i].status # "pending"
    /\ \E i \in 1..Len(task_results) : task_results[i].status = "exception"
    /\ \E i \in 1..Len(chunks) : chunks[i].images # <<>>

-----------------------------------------------------------------------------
(* Specification of the decomposition of a large document: *)
(* Docx._execute_multiprocess_tasks and what it calls       *)

ParserIdle ==
    /\ text = <<>>
    /\ chunk_size = 1
    /\ chunk_overlap = 0
    /\ separators = << <<"\n">> >>
    /\ max_chunks = 1
    /\ enable_multimodal = FALSE
    /\ file_ext = ".docx"
    /\ units = <<>>
    /\ chunks = <<>>
    /\ task_results = <<>>
    /\ pc = "idle"

ParagraphKinds == {"T", "I", "E"}

Documents == UNION {[1..n -> ParagraphKinds] : n \in 1..MaxParas}

\* the page groups of n paragraphs cut after the paragraphs of `cuts`:
\* consecutive, non-empty, in ascending order
RECURSIVE PageGroups(_, _, _, _)
PageGroups(n, cuts, i, current) ==
    IF i >= n THEN (IF current = <<>> THEN <<>> ELSE <<current>>)
    ELSE IF i \in cuts
         THEN <<Append(current, i)>> \o PageGroups(n, cuts, i + 1, <<>>)
         ELSE PageGroups(n, cuts, i + 1, Append(current, i))

Mappings(n) ==
    {PageGroups(n, cuts, 0, <<>>) :
        cuts \in {c \in SUBSET (0..(n - 2)) : Cardinality(c) < MaxPages}}

InitDocx ==
    /\ doc_paragraphs \in Documents
    /\ para_page_mapping \in Mappings(Len(doc_paragraphs))
    /\ docx_multimodal \in BOOLEAN
    /\ futures = [i \in 1..Len(para_page_mapping) |->
                     [status |-> "running", loaded |-> FALSE, failed_saves |-> {}]]
    /\ results = <<>>
    /\ image_url_map = {}
    /\ sorted_lines = <<>>
    /\ all_lines = <<>>
    /\ same_picture \in {b \in BOOLEAN : b => Cardinality({q \in 1..Len(doc_paragraphs) :
                                                   doc_paragraphs[q] = "I"}) >= 2}
    /\ temp_file \in BOOLEAN
    /\ temp_images = {}
    /\ upload_calls = <<>>
    /\ dpc = "collecting"
    /\ ParserIdle
    /\ ImagesIdle
    /\ ServerIdle
    /\ MappingIdle
    /\ ProtoIdle
    /\ RestIdle

\* args_list[i - 1] is the task of page i - 1 (lines 809-820, 845-851)
PageNumOf(i) == i - 1

\* the number of images a worker extracts from the page of task i
ImagesOf(i) ==
    Len(ItemsOfType(ContentSequence(doc_paragraphs, para_page_mapping[i],
                                    docx_multimodal), "image"))

\* as_completed yields the future of task i, whose worker returned its
\* page_lines: lines 871-884 extend `results` with them
FutureReturns(i) ==
    /\ dpc = "collecting"
    /\ futures[i].status = "running"
    /\ \E loads \in BOOLEAN :
       \E failed_saves \in SUBSET (0..(ImagesOf(i) - 1)) :
          /\ (~loads => failed_saves = {})
          /\ futures' = [futures EXCEPT ![i] = [status |-> "returned", loaded |-> loads,
                                                failed_saves |-> failed_saves]]
          /\ LET page_lines == ProcessPage(doc_paragraphs, PageNumOf(i),
                                            para_page_mapping[i], docx_multimodal,
                                            loads, failed_saves)
             IN  /\ results' = results \o page_lines
                 /\ temp_images' = temp_images \cup PathsOf(page_lines)
    /\ UNCHANGED <<doc_paragraphs, para_page_mapping, docx_multimodal, image_url_map,
                   sorted_lines, all_lines, same_picture, temp_file, upload_calls, dpc>>
    /\ UNCHANGED <<parserVars, imageVars, serverVars, mappingVars, protoVars, restVars>>

\* the files of the first k images of the page of task i (_save_image_to_temp,
\* lines 1246-1254)
FirstImagesOf(i, k) == {[page |-> PageNumOf(i), idx |-> j] : j \in 0..(k - 1)}

\* variant of FutureRaises: a failed page task discards the lines collected so far
FutureRaisesDropsResults(i) ==
    /\ dpc = "collecting"
    /\ futures[i].status = "running"
    /\ futures' = [futures EXCEPT ![i].status = "raised"]
    /\ \E k \in 0..ImagesOf(i) : temp_images' = temp_images \cup FirstImagesOf(i, k)
    /\ results' = <<>>
    /\ UNCHANGED <<doc_paragraphs, para_page_mapping, docx_multimodal,
                   image_url_map, sorted_lines, all_lines, same_picture, temp_file,
                   upload_calls, dpc>>
    /\ UNCHANGED <<parserVars, imageVars, serverVars, mappingVars, protoVars, restVars>>

\* as_completed yields the future of task i, and future.result() raises:
\* lines 894-896 log the error and go on.  The worker had saved the first k
\* images of its page when it failed.
FutureRaises(i) ==
    /\ dpc = "collecting"
    /\ futures[i].status = "running"
    /\ futures' = [futures EXCEPT ![i].status = "raised"]
    /\ \E k \in 0..ImagesOf(i) : temp_images' = temp_images \cup FirstImagesOf(i, k)
    /\ UNCHANGED <<doc_paragraphs, para_page_mapping, docx_multimodal, results,
                   image_url_map, sorted_lines, all_lines, same_picture, temp_file,
                   upload_calls, dpc>>
    /\ UNCHANGED <<parserVars, imageVars, serverVars, mappingVars, protoVars, restVars>>

\* the end of _process_large_document once every future was collected:
\* _process_multiprocess_results(results), lines 908-1006, where `uploaded` are
\* the paths upload_file returned a URL for; _cleanup_temp_image_files on the
\* paths found in the collected lines (lines 876-881, 906, 1008-1038); and
\* _cleanup_temp_file (lines 730, 1113-1124)
ProcessMultiprocessResults ==
    /\ dpc = "collecting"
    /\ \A i \in 1..Len(futures) : futures[i].status # "running"
    /\ \E uploaded \in SUBSET PathsOf(results) :
          LET processed_lines == [k \in 1..Len(results) |->
                                     ProcessedLine(results[k], uploaded)]
              sorted == SortByPage(processed_lines)
          IN  /\ image_url_map' = uploaded
              /\ sorted_lines' = sorted
              /\ all_lines' = [k \in 1..Len(sorted) |-> [text |-> sorted[k].text]]
    /\ upload_calls' = Concat([k \in 1..Len(results) |-> results[k].image_paths])
    /\ temp_images' = temp_images \ PathsOf(results)
    /\ temp_file' = FALSE
    /\ dpc' = "done"
    /\ UNCHANGED <<doc_paragraphs, para_page_mapping, docx_multimodal, futures, results,
                   same_picture>>
    /\ UNCHANGED <<parserVars, imageVars, serverVars, mappingVars, protoVars, restVars>>

NextDocx ==
    \/ \E i \in 1..Len(futures) : FutureReturns(i)
    \/ \E i \in 1..Len(futures) : FutureRaises(i)
    \/ ProcessMultiprocessResults

SpecDocx == InitDocx /\ [][NextDocx]_vars

DocxDone == dpc = "done"

\* the page number of the group that holds paragraph q
PageOfPara(q) ==
    PageNumOf(CHOOSE p \in 1..Len(para_page_mapping) : q \in SeqRange(para_page_mapping[p]))

\* the paragraphs whose text a joined text holds
ParasOfText(parts) == UNION {SeqRange(parts[k].paras) : k \in 1..Len(parts)}

\* C9: for every completion order of the page futures, the reassembled line
\* list is in ascending page-number order: the text of a lower page comes
\* before the text of a higher page.
C9_PagesInPageOrder ==
    DocxDone =>
        /\ Len(all_lines) = Len(sorted_lines)
        /\ \A i \in 1..Len(all_lines) : all_lines[i].text = sorted_lines[i].text
        /\ \A i, j \in 1..Len(sorted_lines) :
               i < j => sorted_lines[i].page_num < sorted_lines[j].page_num
        /\ \A i, j \in 1..Len(all_lines) :
               i < j => \A q \in ParasOfText(all_lines[i].text) :
                        \A r \in ParasOfText(all_lines[j].text) :
                            PageOfPara(q) < PageOfPara(r)

\* C9 witness: two pages with content were reassembled after their futures
\* completed in descending page order
C9_Witness ==
    /\ DocxDone
    /\ \E k \in 1..(Len(results) - 1) : results[k].page_num > results[k + 1].page_num
    /\ \E i, j \in 1..Len(all_lines) :
          i < j /\ ParasOfText(all_lines[i].text) # {} /\ ParasOfText(all_lines[j].text) # {}

\* the final text of a page when every image reference stays at the position
\* of its own placeholder: image k of the page is there iff it was saved and
\* uploaded
RECURSIVE ExpectedParts(_, _, _, _)
ExpectedParts(content_sequence, page_num, k, failed_saves) ==
    IF content_sequence = <<>> THEN <<>>
    ELSE LET item == Head(content_sequence)
             path == [page |-> page_num, idx |-> k]
         IN  IF item.type = "text"
             THEN <<item>> \o ExpectedParts(Tail(content_sequence), page_num, k, failed_saves)
             ELSE (IF k \notin failed_saves /\ path \in image_url_map
                   THEN <<MarkdownImage(path)>> ELSE <<>>)
                  \o ExpectedParts(Tail(content_sequence), page_num, k + 1, failed_saves)

\* C10: within a page the reassembled text keeps text segments and image
\* references in the order of the page's paragraphs, each image placeholder
\* replaced by the URL of the image extracted at that position; an image that
\* could not be saved or uploaded is omitted and no other image takes its place.
C10_ImagesKeepTheirPosition ==
    DocxDone =>
        \A i \in 1..Len(sorted_lines) :
            LET p == sorted_lines[i].page_num
            IN  sorted_lines[i].text =
                    ExpectedParts(ContentSequence(doc_paragraphs, para_page_mapping[p + 1],
                                                  docx_multimodal),
                                  p, 0, futures[p + 1].failed_saves)

-----------------------------------------------------------------------------
(* Specification of the image enrichment of one batch:                     *)
(* BaseParser.process_multiple_images, process_with_limit and               *)
(* process_image_async (base_parser.py, lines 301-453)                      *)
(*                                                                         *)
(* The url of the i-th (image, url) pair is the number i.  An OCR outcome   *)
(* is "text" (perform_ocr returned a non-empty string), "empty" (it         *)
(* returned ""), "timeout" (wait_for gave up after 30 s) or "raise"; a      *)
(* caption outcome is "none" (the backend was not called), "text", "empty"  *)
(* or "raise".                                                              *)

MaxImages == 2              \* a batch has at most this many images
MaxConcurrentTasks == 2     \* max_concurrent_tasks ranges over 1..MaxConcurrentTasks

\* line 407: min(self.max_concurrent_tasks, 5)
SemaphoreCap == 5

MaxConcurrency(tasks) == Min({tasks, SemaphoreCap})

\* a slot of asyncio.gather: the tuple a task returned, or its exception
PendingResult == [status |-> "pending", ocr_text |-> "", caption |-> "", url |-> 0]
ExceptionResult == [status |-> "exception", ocr_text |-> "", caption |-> "", url |-> 0]

\* lines 385, 440, 446: ("", "", url)
EmptyResult(url) == [status |-> "tuple", ocr_text |-> "", caption |-> "", url |-> url]

\* variant of OcrStage: a timed-out OCR still hands over a text
OcrStageTimeoutKeepsText(outcome) ==
    IF outcome \in {"text", "timeout"} THEN "ocr" ELSE ""

\* lines 323-332: ocr_text after the OCR stage
OcrStage(outcome) == IF outcome = "text" THEN "ocr" ELSE ""

\* lines 335-356: caption after the caption stage
CaptionStage(outcome) == IF outcome = "text" THEN "cap" ELSE ""

\* line 358: return ocr_text, caption, image_url
ProcessImageResult(ocr, cap, url) ==
    [status |-> "tuple", ocr_text |-> OcrStage(ocr), caption |-> CaptionStage(cap),
     url |-> url]

\* variant of MultipleImagesResults: the slot of a task that raised is left out
MultipleImagesResultsDropFailed(tasks) ==
    LET F[k \in 0..Len(tasks)] ==
            IF k = 0 THEN <<>>
            ELSE IF tasks[k].result.status = "exception" THEN F[k - 1]
                 ELSE Append(F[k - 1], tasks[k].result)
    IN  F[Len(tasks)]

\* lines 435-442: one result per gathered slot, ("", "", url) for an exception
MultipleImagesResults(tasks) ==
    [i \in 1..Len(tasks) |->
        IF tasks[i].result.status = "exception"
        THEN EmptyResult(tasks[i].url)
        ELSE tasks[i].result]

WaitingTask(url) ==
    [pc |-> "waiting", url |-> url, ocr |-> "none", ocr_call |-> "idle",
     caption |-> "none", exit |-> "none", result |-> PendingResult]

\* process_multiple_images up to line 432: the semaphore and one task per pair
InitImages ==
    /\ \E n \in 1..MaxImages : images_data = [i \in 1..n |-> i]
    /\ max_concurrent_tasks \in 1..MaxConcurrentTasks
    /\ caption_parser \in BOOLEAN
    /\ semaphore = MaxConcurrency(max_concurrent_tasks)
    /\ image_tasks = [i \in 1..Len(images_data) |-> WaitingTask(images_data[i])]
    /\ image_results = <<>>
    /\ ipc = "gathering"
    /\ ParserIdle
    /\ DocxIdle
    /\ ServerIdle
    /\ MappingIdle
    /\ ProtoIdle
    /\ RestIdle

\* get_image_caption_async (lines 517-527) calls the caption backend without
\* awaiting: while one task is in its caption call the event loop runs no
\* other task
LoopFree == \A j \in 1..Len(image_tasks) : image_tasks[j].pc # "caption"

ImagesUnchanged ==
    /\ UNCHANGED <<images_data, max_concurrent_tasks, caption_parser, image_results, ipc>>
    /\ UNCHANGED <<parserVars, docxVars, serverVars, mappingVars, protoVars, restVars>>

\* line 378, async with semaphore: the tasks get the semaphore in task order;
\* lines 325-326: perform_ocr is started in an executor thread
AcquireSemaphore(i) ==
    /\ ipc = "gathering" /\ LoopFree
    /\ image_tasks[i].pc = "waiting"
    /\ \A j \in 1..(i - 1) : image_tasks[j].pc # "waiting"
    /\ semaphore > 0
    /\ semaphore' = semaphore - 1
    /\ image_tasks' = [image_tasks EXCEPT ![i].pc = "ocr", ![i].ocr_call = "running"]
    /\ ImagesUnchanged

\* the end of process_with_limit for task i: line 382 returns the result; when
\* resized_image.close() raises (line 363) the handler of line 383 returns
\* ("", "", url); when image.close() raises (line 389) the task ends with an
\* exception.  The semaphore is released in every case.
TaskExit(task, ocr, ocr_call, cap, exit) ==
    [task EXCEPT !.pc = "done", !.ocr = ocr, !.ocr_call = ocr_call, !.caption = cap,
                 !.exit = exit,
                 !.result = CASE exit = "returned" -> ProcessImageResult(ocr, cap, task.url)
                              [] exit = "caught" -> EmptyResult(task.url)
                              [] OTHER -> ExceptionResult]

\* lines 326-356 once the OCR stage of task i ended with `outcome`: with a
\* caption parser and a base64 image the caption backend is called next
AfterOcr(i, outcome, ocr_call) ==
    \/ /\ caption_parser
       /\ image_tasks' = [image_tasks EXCEPT ![i].pc = "caption", ![i].ocr = outcome,
                                             ![i].ocr_call = ocr_call]
       /\ UNCHANGED semaphore
    \/ /\ \E exit \in {"returned", "caught", "exception"} :
             image_tasks' = [image_tasks EXCEPT
                                ![i] = TaskExit(@, outcome, ocr_call, "none", exit)]
       /\ semaphore' = semaphore + 1

\* line 326: perform_ocr returned its text ("text") or "" ("empty")
OcrReturns(i) ==
    /\ ipc = "gathering" /\ LoopFree
    /\ image_tasks[i].pc = "ocr"
    /\ \E outcome \in {"text", "empty"} : AfterOcr(i, outcome, "finished")
    /\ ImagesUnchanged

\* lines 327-329: wait_for times out; the executor thread goes on running
\* perform_ocr
OcrTimesOut(i) ==
    /\ ipc = "gathering" /\ LoopFree
    /\ image_tasks[i].pc = "ocr"
    /\ AfterOcr(i, "timeout", "running")
    /\ ImagesUnchanged

\* lines 330-332: the OCR future raises
OcrRaises(i) ==
    /\ ipc = "gathering" /\ LoopFree
    /\ image_tasks[i].pc = "ocr"
    /\ AfterOcr(i, "raise", "finished")
    /\ ImagesUnchanged

\* the executor thread of a timed-out OCR ends
OcrThreadEnds(i) ==
    /\ ipc # "idle"
    /\ image_tasks[i].pc # "ocr"
    /\ image_tasks[i].ocr_call = "running"
    /\ image_tasks' = [image_tasks EXCEPT ![i].ocr_call = "finished"]
    /\ UNCHANGED semaphore
    /\ ImagesUnchanged

\* lines 342-354: the caption backend returned a caption or "", or raised
CaptionEnds(i) ==
    /\ ipc = "gathering"
    /\ image_tasks[i].pc = "caption"
    /\ \E cap \in {"text", "empty", "raise"} :
       \E exit \in {"returned", "caught", "exception"} :
          image_tasks' = [image_tasks EXCEPT
                             ![i] = TaskExit(@, @.ocr, @.ocr_call, cap, exit)]
    /\ semaphore' = semaphore + 1
    /\ ImagesUnchanged

\* lines 432-453: gather is complete; the results are built, images_data is
\* cleared and the list is returned
GatherImagesReturn ==
    /\ ipc = "gathering"
    /\ \A i \in 1..Len(image_tasks) : image_tasks[i].pc = "done"
    /\ image_results' = MultipleImagesResults(image_tasks)
    /\ images_data' = <<>>
    /\ ipc' = "returned"
    /\ UNCHANGED <<max_concurrent_tasks, caption_parser, semaphore, image_tasks>>
    /\ UNCHANGED <<parserVars, docxVars, serverVars, mappingVars, protoVars, restVars>>

NextImages ==
    \/ \E i \in 1..Len(image_tasks) : AcquireSemaphore(i)
    \/ \E i \in 1..Len(image_tasks) : OcrReturns(i)
    \/ \E i \in 1..Len(image_tasks) : OcrTimesOut(i)
    \/ \E i \in 1..Len(image_tasks) : OcrRaises(i)
    \/ \E i \in 1..Len(image_tasks) : OcrThreadEnds(i)
    \/ \E i \in 1..Len(image_tasks) : CaptionEnds(i)
    \/ GatherImagesReturn

SpecImages == InitImages /\ [][NextImages]_vars

ImagesReturned == ipc = "returned"

\* the images with an OCR or caption backend call in progress
InFlight ==
    {i \in 1..Len(image_tasks) :
        image_tasks[i].ocr_call = "running" \/ image_tasks[i].pc = "caption"}

\* C11: for a non-empty batch of n (image, url) pairs and every combination of
\* per-image successes, exceptions and timeouts, process_multiple_images
\* returns exactly n results and result i carries the url of input i.
C11_OneResultPerImage ==
    ImagesReturned =>
        /\ Len(image_results) = Len(image_tasks)
        /\ \A i \in 1..Len(image_results) :
              /\ image_results[i].status = "tuple"
              /\ image_results[i].url = image_tasks[i].url

\* C11 witness: a batch of at least two images was returned in which one task
\* ended with an exception, one OCR timed out and one image succeeded
C11_Witness ==
    /\ ImagesReturned
    /\ Len(image_tasks) >= 2
    /\ \E i \in 1..Len(image_tasks) :
          image_tasks[i].exit = "exception" /\ image_tasks[i].ocr = "timeout"
    /\ \E i \in 1..Len(image_tasks) :
          image_tasks[i].exit = "returned" /\ image_tasks[i].ocr = "text"

\* C12: within one batch, at every moment at most min(max_concurrent_tasks, 5)
\* images have an OCR or caption backend call in progress.
C12_InFlightBounded ==
    ipc = "gathering" => Cardinality(InFlight) <= MaxConcurrency(max_concurrent_tasks)

\* C13: when the OCR call or the caption call of one image raises or times
\* out, that stage's result for that image is the empty string, no exception
\* leaves process_multiple_images, and the results of the other images are
\* what their backends returned.
C13_FailureIsolation ==
    ImagesReturned =>
        /\ Len(image_results) = Len(image_tasks)
        /\ \A i \in 1..Len(image_results) :
              LET t == image_tasks[i]
                  r == image_results[i]
              IN  /\ r.status = "tuple"
                  /\ t.ocr \in {"timeout", "raise"} => r.ocr_text = ""
                  /\ t.caption = "raise" => r.caption = ""
                  /\ t.exit = "returned" =>
                        /\ r.ocr_text = (IF t.ocr = "text" THEN "ocr" ELSE "")
                        /\ r.caption = (IF t.caption = "text" THEN "cap" ELSE "")

\* C13 witness: a returned batch in which the OCR of one image timed out, the
\* caption call of one image raised, and another image has its OCR text
C13_Witness ==
    /\ ImagesReturned
    /\ \E i, j \in 1..Len(image_tasks) :
          /\ i # j
          /\ image_tasks[i].ocr = "timeout" /\ image_results[i].ocr_text = ""
          /\ image_tasks[j].ocr = "text" /\ image_results[j].ocr_text = "ocr"
    /\ \E i \in 1..Len(image_tasks) : image_tasks[i].caption = "raise"

\* C14: for each image the caption backend is called only after OCR, only
\* when the OCR result is a non-empty string and a caption backend is
\* configured; when OCR yields empty text the caption backend is not called
\* and the caption is empty.
C14_CaptionOnlyAfterNonEmptyOcr ==
    \A i \in 1..Len(image_tasks) :
        LET t == image_tasks[i]
        IN  /\ (t.pc = "caption" \/ t.caption # "none") =>
                  (caption_parser /\ t.ocr = "text")
            /\ (t.pc = "done" /\ t.ocr # "text") =>
                  (t.caption = "none" /\ t.result.caption = "")

-----------------------------------------------------------------------------
(* Specification of one ReadFromFile request:                              *)
(* DocReaderServicer.ReadFromFile (server.py, lines 95-194) and             *)
(* Parser.parse_file (parser.py, lines 78-148)                              *)

MaxRequestChunkSize == 2    \* read_config.chunk_size and chunk_overlap range over 0..this

\* parser.py, lines 38-52: the keys of self.parsers
TableExtensions ==
    {"docx", "doc", "pdf", "md", "txt", "jpg", "jpeg", "png", "gif", "bmp", "tiff",
     "webp", "markdown"}

\* parser.py, lines 38-52: self.parsers.get(file_type)
ParserFor(file_type) ==
    CASE file_type = "docx" -> "DocxParser"
      [] file_type = "doc" -> "DocParser"
      [] file_type = "pdf" -> "PDFParser"
      [] file_type \in {"md", "markdown"} -> "MarkdownParser"
      [] file_type = "txt" -> "TextParser"
      [] file_type \in {"jpg", "jpeg", "png", "gif", "bmp", "tiff", "webp"} -> "ImageParser"
      [] OTHER -> "None"

\* variant of GetParser: a file type outside the table is read as plain text
GetParserDefaultsToText(file_type) ==
    IF Lower(file_type) \in TableExtensions THEN ParserFor(Lower(file_type))
    ELSE "TextParser"

\* Parser.get_parser, parser.py lines 60-76
GetParser(file_type) == ParserFor(Lower(file_type))

\* server.py, lines 108-110: request.file_type or the extension of file_name
FileTypeOf(req) == IF req.file_type # "" THEN req.file_type ELSE req.file_name_ext

\* parser.py, lines 114-124 against the constructors: DocxParser.__init__
\* (docx_parser.py, lines 32-47) has no chunking_config parameter, the other
\* classes use BaseParser.__init__ (base_parser.py, lines 94-108), which has
ConstructorAccepts(cls) == cls # "DocxParser"

\* parse_into_text of cls: for bytes that cannot be loaded, DocxParser
\* (docx_parser.py, lines 166-246) and PDFParser (pdf_parser.py, lines
\* 103-105) catch the error and return ""
ParseIntoText(cls, req) == IF req.content = "corrupt" THEN <<>> ELSE req.text

\* server.py, lines 117-118: chunk_size or 512, chunk_overlap or 50
ChunkSizeOf(req) == IF req.chunk_size # 0 THEN req.chunk_size ELSE 512
ChunkOverlapOf(req) == IF req.chunk_overlap # 0 THEN req.chunk_overlap ELSE 50

NoneResult == [kind |-> "None", chunks |-> <<>>]

\* BaseParser.parse (base_parser.py, lines 586-642) on the request's bytes
ParserParse(cls, req) ==
    [kind |-> "ParseResult",
     chunks |-> ChunkText(ParseIntoText(cls, req), ChunkSizeOf(req), ChunkOverlapOf(req),
                          << <<"\n">> >>)]

\* Parser.parse_file, parser.py lines 105-148: the class, the classes whose
\* parse was called, and the returned value
ParseFile(req, file_type) ==
    LET cls == GetParser(file_type)
    IN  IF cls = "None"
        THEN [cls |-> cls, calls |-> <<>>, result |-> NoneResult]
        ELSE IF ~ConstructorAccepts(cls)
        THEN [cls |-> cls, calls |-> <<>>, result |-> NoneResult]
        ELSE IF req.parse = "raises"
        THEN [cls |-> cls, calls |-> <<cls>>, result |-> NoneResult]
        ELSE [cls |-> cls, calls |-> <<cls>>, result |-> ParserParse(cls, req)]

\* variant of ResponseFor: a result without chunks is answered like no result
ResponseForEmptyIsError(result) ==
    IF result.kind = "None" \/ result.chunks = <<>>
    THEN [code |-> "INTERNAL", details |-> "Failed to parse file", chunks |-> <<>>]
    ELSE [code |-> "OK", details |-> "", chunks |-> result.chunks]

\* server.py, lines 170-186: the response for the value parse_file returned
ResponseFor(result) ==
    IF result.kind = "None"
    THEN [code |-> "INTERNAL", details |-> "Failed to parse file", chunks |-> <<>>]
    ELSE [code |-> "OK", details |-> "", chunks |-> result.chunks]

RequestFileTypes ==
    TableExtensions \cup {"DOCX", "Pdf", "MD", "Txt", "PNG"} \cup {"xyz", "XYZ", "html"}

RequestTexts == {<<>>, <<"a">>, <<"a", "\n", "a", "a">>}

\* the requests: bytes that cannot be loaded are those of a DOCX or PDF
\* container; a request without file_type has the extension of its file name;
\* parse of a text or markdown parser does not raise on empty bytes
\* (decode_bytes gives "", chunk_text returns [] at line 811, and
\* process_chunks_images returns the empty list at line 1181)
Requests ==
    {r \in [file_type : RequestFileTypes \cup {""}, file_name_ext : {"", "pdf", "zip"},
            content : {"valid", "corrupt"}, text : RequestTexts,
            parse : {"returns", "raises"}, chunk_size : 0..MaxRequestChunkSize,
            chunk_overlap : 0..MaxRequestChunkSize] :
        /\ r.file_type # "" => r.file_name_ext = ""
        /\ r.content = "corrupt" =>
              /\ Lower(FileTypeOf(r)) \in {"docx", "pdf"}
              /\ r.text = <<>>
              /\ r.parse = "returns"
        /\ r.chunk_overlap # 0 => r.chunk_overlap < ChunkSizeOf(r)
        /\ (r.text = <<>> /\ GetParser(FileTypeOf(r)) \in {"TextParser", "MarkdownParser"})
              => r.parse = "returns"}

InitServer ==
    /\ request \in Requests
    /\ parser_cls = "None"
    /\ parser_calls = <<>>
    /\ parse_result = NoneResult
    /\ response = [code |-> "OK", details |-> "", chunks |-> <<>>]
    /\ spc = "received"
    /\ ParserIdle
    /\ DocxIdle
    /\ ImagesIdle
    /\ MappingIdle
    /\ ProtoIdle
    /\ RestIdle

\* ReadFromFile, server.py lines 104-186
ReadFromFile ==
    /\ spc = "received"
    /\ LET r == ParseFile(request, FileTypeOf(request))
       IN  /\ parser_cls' = r.cls
           /\ parser_calls' = r.calls
           /\ parse_result' = r.result
           /\ response' = ResponseFor(r.result)
    /\ spc' = "responded"
    /\ UNCHANGED request
    /\ UNCHANGED <<parserVars, docxVars, imageVars, mappingVars, protoVars, restVars>>

NextServer == ReadFromFile

SpecServer == InitServer /\ [][NextServer]_vars

Responded == spc = "responded"

\* C18: ReadFromFile on a document of a supported type whose container cannot
\* be loaded (corrupt DOCX or PDF bytes) fails with an explicit error status
\* and message; it never returns an OK response with an empty chunk list.
C18_CorruptContainerIsAnError ==
    (Responded /\ request.content = "corrupt") =>
        /\ response.code # "OK"
        /\ response.details # ""

\* C19: ReadFromFile with a file type that has no registered parser returns,
\* without calling any parser and without retry, a response with no chunks and
\* the error status INTERNAL with a message.
C19_UnknownTypeIsReportedAtOnce ==
    (Responded /\ Lower(FileTypeOf(request)) \notin TableExtensions) =>
        /\ parser_calls = <<>>
        /\ parse_result.kind = "None"
        /\ response.code = "INTERNAL"
        /\ response.details # ""
        /\ response.chunks = <<>>

\* C19 witness: a request of file type "XYZ" with readable bytes was answered
C19_Witness ==
    /\ Responded
    /\ request.file_type = "XYZ"
    /\ request.text # <<>>
    /\ response.code = "INTERNAL"

\* C20: for every extension of the dispatch table, matched case-insensitively,
\* parse_file instantiates the mapped parser class, calls its parse and
\* returns the result; None is returned only for an extension outside the
\* table or when the parser's parse raises.
C20_DispatchTable ==
    Responded =>
        LET ext == Lower(FileTypeOf(request))
        IN  /\ ext \in TableExtensions =>
                  /\ parser_cls = ParserFor(ext)
                  /\ parser_calls = <<ParserFor(ext)>>
                  /\ (parse_result.kind = "None") <=> (request.parse = "raises")
            /\ ext \notin TableExtensions => parse_result.kind = "None"

-----------------------------------------------------------------------------
(* Further properties of the decomposition of a large document (SpecDocx) *)

\* the task of page i returned page lines
PageSucceeded(i) ==
    /\ futures[i].status = "returned"
    /\ ProcessPage(doc_paragraphs, PageNumOf(i), para_page_mapping[i], docx_multimodal,
                   futures[i].loaded, futures[i].failed_saves) # <<>>

\* the paragraphs of the page of task i that have text
TextParasOfPage(i) ==
    {q \in SeqRange(para_page_mapping[i]) : doc_paragraphs[q + 1] = "T"}

\* C15: when the worker task of a page raises or returns no result, the
\* document is still processed: the output holds the text of every other page,
\* in page order, and the failed page contributes nothing.
C15_PageFailureIsolation ==
    DocxDone =>
        /\ Len(all_lines) = Len(sorted_lines)
        /\ {sorted_lines[k].page_num : k \in 1..Len(sorted_lines)}
              = {PageNumOf(i) : i \in {j \in 1..Len(futures) : PageSucceeded(j)}}
        /\ \A k, l \in 1..Len(sorted_lines) :
              k < l => sorted_lines[k].page_num < sorted_lines[l].page_num
        /\ \A k \in 1..Len(all_lines) :
              ParasOfText(all_lines[k].text) = TextParasOfPage(sorted_lines[k].page_num + 1)

\* C15 witness: the task of a page with text raised after another page's lines
\* were collected, and the output holds the text of the other page
C15_Witness ==
    /\ DocxDone
    /\ \E i \in 1..Len(futures) :
          /\ futures[i].status = "raised"
          /\ TextParasOfPage(i) # {}
          /\ \E j \in 1..Len(futures) :
                /\ j # i /\ PageSucceeded(j) /\ TextParasOfPage(j) # {}
                /\ \E k \in 1..Len(all_lines) :
                      ParasOfText(all_lines[k].text) = TextParasOfPage(j)

\* C16: after the decomposition of a large document ended, whether every page
\* task succeeded or some page task failed after writing images, no transient
\* artifact remains: the shared temporary copy of the document bytes and every
\* temporary image file written by a worker have been deleted.
C16_NoTransientArtifactRemains ==
    DocxDone => (temp_images = {} /\ ~temp_file)

\* the picture embedded by image paragraph q (_extract_image_in_process reads
\* it through the relationship id of the paragraph's drawing)
PictureOfPara(q) == IF same_picture THEN 0 ELSE q

\* the picture saved in the temporary file `path`: that of image idx of its page
PictureOfPath(path) ==
    PictureOfPara(ItemsOfType(ContentSequence(doc_paragraphs,
                                              para_page_mapping[path.page + 1],
                                              docx_multimodal),
                              "image")[path.idx + 1].paras[1])

\* C17: a source image referenced by two paragraphs is uploaded exactly once,
\* and the reassembled text refers twice to that one uploaded URL; no image is
\* uploaded more than once.
C17_OneUploadPerSourceImage ==
    DocxDone =>
        \A a, b \in 1..Len(upload_calls) :
            (a # b /\ upload_calls[a] \in image_url_map /\ upload_calls[b] \in image_url_map)
                => PictureOfPath(upload_calls[a]) # PictureOfPath(upload_calls[b])

-----------------------------------------------------------------------------
(* Further properties of ReadFromFile (SpecServer) *)

\* the request holds empty bytes for a text or markdown file
EmptyTextRequest ==
    /\ request.content = "valid"
    /\ request.text = <<>>
    /\ Lower(FileTypeOf(request)) \in {"txt", "md", "markdown"}

\* C21: empty input is not an error: chunk_text of the empty string returns
\* an empty list, and a file request with empty byte content for a text or
\* markdown file returns an OK response with zero chunks and no error status.
C21_EmptyInputIsNotAnError ==
    /\ ChunkText(<<>>, ChunkSizeOf(request), ChunkOverlapOf(request), << <<"\n">> >>) = <<>>
    /\ (Responded /\ EmptyTextRequest) =>
          /\ parse_result = [kind |-> "ParseResult", chunks |-> <<>>]
          /\ response.code = "OK"
          /\ response.details = ""
          /\ response.chunks = <<>>

\* C21 witness: a markdown request with empty bytes went through
\* MarkdownParser.parse and was answered
C21_Witness ==
    /\ Responded
    /\ EmptyTextRequest
    /\ request.file_type = "MD"
    /\ parser_calls = <<"MarkdownParser">>
    /\ response.code = "OK"

-----------------------------------------------------------------------------
(* Further properties of BaseParser.parse (SpecParse) *)

\* the chunk list chunk_text gave parse (line 606)
ChunkedText == ChunkText(text, chunk_size, chunk_overlap, separators)

\* C22: when chunking yields n chunks and the configured maximum is m, the
\* result of parse holds exactly the first min(n, m) chunks, in their original
\* order and unchanged (content, seq, start and end; the image stage only
\* fills `images`), and the dropped chunks raise no error: parse returns.
C22_FirstChunksUpToCap ==
    /\ pc \in {"parse", "gather", "returned"}
    /\ Returned =>
          LET chunked == ChunkedText
              n == Len(chunked)
              k == IF n < max_chunks THEN n ELSE max_chunks
          IN  /\ Len(chunks) = k
              /\ \A i \in 1..k : [chunks[i] EXCEPT !.images = <<>>] = chunked[i]
              /\ (~enable_multimodal \/ file_ext \notin AllowedTypes) =>
                     chunks = SubSeq(chunked, 1, k)

\* C22 witness: parse returned after the cap cut a list of three chunks to its
\* first two
C22_Witness ==
    /\ Returned
    /\ ~enable_multimodal
    /\ Len(ChunkedText) = 3
    /\ max_chunks = 2
    /\ chunks = SubSeq(ChunkedText, 1, 2)

-----------------------------------------------------------------------------
(* Specification of Docx._identify_page_paragraph_mapping                  *)
(* (docx_parser.py, lines 303-419)                                         *)

(* The returned dict is a function from its keys, the page numbers, to the *)
(* lists of paragraph indices.  A document is given by its number of       *)
(* paragraphs and the set of the paragraphs in which a page break is found *)
(* (lines 363-375).                                                        *)

MaxMapParas == 4        \* a document mapped by break scanning has at most this many paragraphs
MaxMaxPage == 3         \* max_page ranges over 0..MaxMaxPage and the default

HeuristicThreshold == 1000      \* line 326
EstimatedParasPerPage == 25     \* line 328
DefaultMaxPage == 100000        \* line 303

\* page_to_paragraphs[page] = value
Put(map, page, value) ==
    [x \in (DOMAIN map) \cup {page} |-> IF x = page THEN value ELSE map[x]]

\* variant of AppendPara: the paragraph index is put at the front of the list
AppendParaFront(map, page, p_idx) == Put(map, page, <<p_idx>> \o map[page])

\* page_to_paragraphs[page].append(p_idx), lines 339 and 351
AppendPara(map, page, p_idx) == Put(map, page, Append(map[page], p_idx))

\* lines 336-337 and 385-386: if page not in page_to_paragraphs: ... = []
EnsurePage(map, page) == IF page \in DOMAIN map THEN map ELSE Put(map, page, <<>>)

\* one iteration of the loop of lines 331-342; st.stopped is set by the break
HeuristicStep(st, maxp, p_idx) ==
    LET est_page == p_idx \div EstimatedParasPerPage
    IN  IF st.stopped THEN st
        ELSE IF est_page > maxp THEN [st EXCEPT !.stopped = TRUE]
        ELSE [st EXCEPT !.map = AppendPara(EnsurePage(st.map, est_page), est_page, p_idx)]

\* the iterations of the loop of lines 331-342 for p_idx in range(lo, hi), in
\* order (the range is halved to keep the evaluation shallow)
RECURSIVE HeuristicLoop(_, _, _, _)
HeuristicLoop(maxp, lo, hi, st) ==
    IF hi <= lo THEN st
    ELSE IF hi = lo + 1 THEN HeuristicStep(st, maxp, lo)
    ELSE LET mid == (lo + hi) \div 2
             first == HeuristicLoop(maxp, lo, mid, st)
         IN  IF first.stopped THEN first ELSE HeuristicLoop(maxp, mid, hi, first)

\* the loop of lines 349-389, from paragraph p_idx on
RECURSIVE StandardLoop(_, _, _, _, _, _)
StandardLoop(n, breaks, maxp, p_idx, current_page, map) ==
    IF p_idx >= n THEN map
    ELSE LET map1 == AppendPara(map, current_page, p_idx)
         IN  IF p_idx \in breaks
             THEN (IF current_page + 1 > maxp THEN map1
                   ELSE StandardLoop(n, breaks, maxp, p_idx + 1, current_page + 1,
                                     EnsurePage(map1, current_page + 1)))
             ELSE StandardLoop(n, breaks, maxp, p_idx + 1, current_page, map1)

\* lines 391-396: the pages without paragraphs are deleted
RemoveEmptyPages(map) == [x \in {y \in DOMAIN map : map[y] # <<>>} |-> map[x]]

\* list(range(n))
Range(n) == [i \in 1..n |-> i - 1]

\* _identify_page_paragraph_mapping(max_page) for a document of n paragraphs
IdentifyPageParagraphMapping(n, breaks, maxp) ==
    LET initial == [x \in {0} |-> <<>>]
    IN  IF n > HeuristicThreshold
        THEN HeuristicLoop(maxp, 0, n, [map |-> initial, stopped |-> FALSE]).map
        ELSE LET map == RemoveEmptyPages(StandardLoop(n, breaks, maxp, 0, 0, initial))
             IN  IF DOMAIN map = {} THEN [x \in {0} |-> Range(n)] ELSE map

\* the documents: small ones, mapped by break scanning, and documents of more
\* than 1000 paragraphs, mapped by the fixed number of paragraphs per page
MappedDocumentSizes ==
    (0..MaxMapParas) \cup {HeuristicThreshold + 1, HeuristicThreshold + EstimatedParasPerPage + 1}

MaxPageValues == (0..MaxMaxPage) \cup {DefaultMaxPage}

InitMapping ==
    /\ total_paragraphs \in MappedDocumentSizes
    /\ page_breaks \in (IF total_paragraphs > HeuristicThreshold
                        THEN {{}, {0}, {HeuristicThreshold}}
                        ELSE SUBSET (0..(total_paragraphs - 1)))
    /\ max_page \in MaxPageValues
    /\ page_to_paragraphs = <<>>
    /\ mpc = "call"
    /\ ParserIdle
    /\ DocxIdle
    /\ ImagesIdle
    /\ ServerIdle
    /\ ProtoIdle
    /\ RestIdle

IdentifyMapping ==
    /\ mpc = "call"
    /\ page_to_paragraphs' = IdentifyPageParagraphMapping(total_paragraphs, page_breaks,
                                                          max_page)
    /\ mpc' = "returned"
    /\ UNCHANGED <<total_paragraphs, page_breaks, max_page>>
    /\ UNCHANGED <<parserVars, docxVars, imageVars, serverVars, protoVars, restVars>>

NextMapping == IdentifyMapping

SpecMapping == InitMapping /\ [][NextMapping]_vars

Mapped == mpc = "returned"

\* the paragraph indices of the groups, group after group in page-number order
RECURSIVE FlattenPages(_)
FlattenPages(pages) ==
    IF pages = {} THEN <<>>
    ELSE LET last == CHOOSE x \in pages : \A y \in pages : y <= x
         IN  FlattenPages(pages \ {last}) \o page_to_paragraphs[last]

\* the number of pages of the document: by its breaks, or by its size
DocumentPages ==
    IF total_paragraphs > HeuristicThreshold
    THEN ((total_paragraphs - 1) \div EstimatedParasPerPage) + 1
    ELSE Cardinality(page_breaks) + 1

\* C23: in the returned mapping no paragraph index appears in two page groups
\* or twice in one group, every paragraph index before the truncation point
\* appears in exactly one group, and indices are ascending within each group
\* and across groups in page-number order (the groups, in page order, list
\* 0, 1, ..., t-1, with t the number of paragraphs when the document has no
\* more pages than max_page); for both methods.
C23_EveryParagraphInOneGroup ==
    Mapped =>
        LET flat == FlattenPages(DOMAIN page_to_paragraphs)
            t == Len(flat)
        IN  /\ t <= total_paragraphs
            /\ flat = Range(t)
            /\ DocumentPages <= max_page => t = total_paragraphs

\* C23 witness: a break-scanned document cut by max_page after two groups,
\* some paragraphs left out
C23_Witness ==
    /\ Mapped
    /\ total_paragraphs <= HeuristicThreshold
    /\ Cardinality(DOMAIN page_to_paragraphs) = 2
    /\ Len(FlattenPages(DOMAIN page_to_paragraphs)) < total_paragraphs
    /\ Len(FlattenPages(DOMAIN page_to_paragraphs)) >= 3

\* C24: for every document, including one with zero paragraphs and one whose
\* last paragraph carries a page break, every page group in the returned
\* mapping is non-empty and the page numbers are exactly 0, 1, ..., k-1.
C24_GroupsNonEmptyPagesDense ==
    Mapped =>
        /\ \A page \in DOMAIN page_to_paragraphs : page_to_paragraphs[page] # <<>>
        /\ DOMAIN page_to_paragraphs = 0..(Cardinality(DOMAIN page_to_paragraphs) - 1)

\* C25: called with maximum page count N (N >= 1), the function returns at
\* most N page groups (no page numbered N or above), in both methods.
C25_AtMostMaxPageGroups ==
    (Mapped /\ max_page >= 1) =>
        /\ Cardinality(DOMAIN page_to_paragraphs) <= max_page
        /\ \A page \in DOMAIN page_to_paragraphs : page < max_page

-----------------------------------------------------------------------------
(* Specification of DocReaderServicer._convert_chunk_to_proto and          *)
(* to_valid_utf8_text (server.py, lines 34-46 and 284-313)                 *)

(* A Python string is the sequence of its code points.  An attribute or a  *)
(* dict value that may be None is the record [none, s].                    *)

MaxStrLen == 2          \* the content of a chunk has at most this many code points

\* U+0061, U+00E9, U+D7FF, U+D800, U+DFFF, U+E000, U+FFFD, U+10000
CodePoints == {97, 233, 55295, 55296, 57343, 57344, 65533, 65536}

ReplacementChar == 65533        \* "\uFFFD", line 45
QuestionMark == 63              \* "?", what errors="replace" puts when encoding

\* line 35: the class [\ud800-\udfff]
IsSurrogate(c) == c >= 55296 /\ c <= 57343

\* variant of SurrogateSub: only the high surrogates U+D800..U+DBFF are replaced
SurrogateSubHighOnly(s) ==
    [i \in 1..Len(s) |-> IF s[i] >= 55296 /\ s[i] <= 56319 THEN ReplacementChar ELSE s[i]]

\* line 45: _SURROGATE_RE.sub("\uFFFD", s)
SurrogateSub(s) == [i \in 1..Len(s) |-> IF IsSurrogate(s[i]) THEN ReplacementChar ELSE s[i]]

\* the UTF-8 bytes of one code point; a surrogate cannot be encoded and
\* errors="replace" puts "?" for it
EncodeCodePoint(c) ==
    IF c < 128 THEN <<c>>
    ELSE IF c < 2048 THEN <<192 + (c \div 64), 128 + (c % 64)>>
    ELSE IF IsSurrogate(c) THEN <<QuestionMark>>
    ELSE IF c < 65536
    THEN <<224 + (c \div 4096), 128 + ((c \div 64) % 64), 128 + (c % 64)>>
    ELSE <<240 + (c \div 262144), 128 + ((c \div 4096) % 64),
           128 + ((c \div 64) % 64), 128 + (c % 64)>>

\* s.encode("utf-8", errors="replace"), line 46
RECURSIVE Utf8Encode(_)
Utf8Encode(s) ==
    IF s = <<>> THEN <<>> ELSE EncodeCodePoint(Head(s)) \o Utf8Encode(Tail(s))

\* bytes.decode("utf-8") of well-formed UTF-8, line 46
RECURSIVE Utf8Decode(_)
Utf8Decode(b) ==
    IF b = <<>> THEN <<>>
    ELSE IF b[1] < 128
    THEN <<b[1]>> \o Utf8Decode(SubSeq(b, 2, Len(b)))
    ELSE IF b[1] < 224
    THEN <<(b[1] - 192) * 64 + (b[2] - 128)>> \o Utf8Decode(SubSeq(b, 3, Len(b)))
    ELSE IF b[1] < 240
    THEN <<(b[1] - 224) * 4096 + (b[2] - 128) * 64 + (b[3] - 128)>>
         \o Utf8Decode(SubSeq(b, 4, Len(b)))
    ELSE <<(b[1] - 240) * 262144 + (b[2] - 128) * 4096 + (b[3] - 128) * 64 + (b[4] - 128)>>
         \o Utf8Decode(SubSeq(b, 5, Len(b)))

\* to_valid_utf8_text(s), lines 37-46
ToValidUtf8Text(os) ==
    IF os.none \/ os.s = <<>> THEN <<>>
    ELSE Utf8Decode(Utf8Encode(SurrogateSub(os.s)))

\* the proto Image of one img_info dict, lines 303-310
ProtoImage(img_info) ==
    [url |-> ToValidUtf8Text(img_info.cos_url),
     caption |-> ToValidUtf8Text(img_info.caption),
     ocr_text |-> ToValidUtf8Text(img_info.ocr_text),
     original_url |-> ToValidUtf8Text(img_info.original_url)]

\* _convert_chunk_to_proto(chunk), lines 284-313
ConvertChunkToProto(c) ==
    [content |-> ToValidUtf8Text(c.content),
     images |-> [k \in 1..Len(c.images) |-> ProtoImage(c.images[k])]]

NoneStr == [none |-> TRUE, s |-> <<>>]
Str(s) == [none |-> FALSE, s |-> s]

\* the contents: None and every string of at most MaxStrLen code points
Contents ==
    {NoneStr} \cup {Str(s) : s \in UNION {[1..k -> CodePoints] : k \in 0..MaxStrLen}}

\* the values of the string entries of an img_info dict
ImageFieldValues == {NoneStr, Str(<<97>>), Str(<<56320, 97, 55296>>)}

ImageInfos ==
    [cos_url : ImageFieldValues, caption : ImageFieldValues,
     ocr_text : ImageFieldValues, original_url : ImageFieldValues]

InitProto ==
    /\ \E content \in Contents :
       \E images \in {<<>>} \cup {<<info>> : info \in ImageInfos} :
          internal_chunk = [content |-> content, images |-> images]
    /\ proto_chunk = [content |-> <<>>, images |-> <<>>]
    /\ cpc = "call"
    /\ ParserIdle
    /\ DocxIdle
    /\ ImagesIdle
    /\ ServerIdle
    /\ MappingIdle
    /\ RestIdle

ConvertChunk ==
    /\ cpc = "call"
    /\ proto_chunk' = ConvertChunkToProto(internal_chunk)
    /\ cpc' = "returned"
    /\ UNCHANGED internal_chunk
    /\ UNCHANGED <<parserVars, docxVars, imageVars, serverVars, mappingVars, restVars>>

NextProto == ConvertChunk

SpecProto == InitProto /\ [][NextProto]_vars

Converted == cpc = "returned"

NoSurrogate(s) == \A i \in 1..Len(s) : ~IsSurrogate(s[i])

\* out is what the claim says to_valid_utf8_text gives for the value os
CleanOf(os, out) ==
    /\ NoSurrogate(out)
    /\ os.none => out = <<>>
    /\ ~os.none =>
          /\ Len(out) = Len(os.s)
          /\ \A i \in 1..Len(out) :
                out[i] = (IF IsSurrogate(os.s[i]) THEN ReplacementChar ELSE os.s[i])
    /\ ToValidUtf8Text(Str(out)) = out

\* C26: every string field of every Chunk and Image placed in a response
\* (content, url, caption, ocr_text, original_url) contains no surrogate code
\* point: to_valid_utf8_text replaces each surrogate by U+FFFD, leaves all
\* other characters unchanged, maps None to the empty string, and is
\* idempotent.
C26_StringFieldsAreValidUtf8 ==
    Converted =>
        /\ CleanOf(internal_chunk.content, proto_chunk.content)
        /\ Len(proto_chunk.images) = Len(internal_chunk.images)
        /\ \A k \in 1..Len(proto_chunk.images) :
              /\ CleanOf(internal_chunk.images[k].cos_url, proto_chunk.images[k].url)
              /\ CleanOf(internal_chunk.images[k].caption, proto_chunk.images[k].caption)
              /\ CleanOf(internal_chunk.images[k].ocr_text, proto_chunk.images[k].ocr_text)
              /\ CleanOf(internal_chunk.images[k].original_url,
                         proto_chunk.images[k].original_url)

\* C26 witness: a converted chunk whose content held a low surrogate next to a
\* character outside the BMP, with an image whose caption held surrogates and
\* whose OCR text was None
C26_Witness ==
    /\ Converted
    /\ internal_chunk.content = Str(<<57343, 65536>>)
    /\ proto_chunk.content = <<ReplacementChar, 65536>>
    /\ Len(proto_chunk.images) = 1
    /\ internal_chunk.images[1].caption = Str(<<56320, 97, 55296>>)
    /\ proto_chunk.images[1].caption = <<ReplacementChar, 97, ReplacementChar>>
    /\ internal_chunk.images[1].ocr_text = NoneStr
    /\ proto_chunk.images[1].ocr_text = <<>>

-----------------------------------------------------------------------------
(* Further properties of _split_into_units and chunk_text (SpecChunk) *)

\* u is a protected span: a whole markdown image or link
IsProtectedSpan(u) == LinkMatchEnd(u, 0) = Len(u) \/ ImageMatchEnd(u, 0) = Len(u)

\* the string sep occurs in u
Occurs(u, sep) == \E i \in 0..(Len(u) - Len(sep)) : Slice(u, i, i + Len(sep)) = sep

\* C27: every Unit that is not a protected span and whose length exceeds
\* chunkSize contains no occurrence of any configured separator and no "."
\* character, i.e. it could not be split further.
C27_LongUnitsCannotBeSplit ==
    Chunked =>
        \A k \in 1..Len(units) :
            (~IsProtectedSpan(units[k]) /\ Len(units[k]) > chunk_size) =>
                /\ \A j \in 1..Len(separators) : ~Occurs(units[k], separators[j])
                /\ ~Occurs(units[k], <<".">>)

\* chunk_text on the content of chunk k, with the parameters that produced it
ReChunk(k) == ChunkText(chunks[k].content, chunk_size, chunk_overlap, separators)

\* C28: re-chunking the content of any Chunk produced by chunk_text, with the
\* same chunkSize, chunkOverlap and separators, yields no more Chunks than the
\* chunking that produced it.
C28_ReChunkingDoesNotFragment ==
    Chunked => \A k \in 1..Len(chunks) : Len(ReChunk(k)) <= Len(chunks)

\* the buffer of chunk_text when the loop of lines 827-904 reaches unit i
BufferBefore(i) ==
    ChunkLoop(SubSeq(units, 1, i - 1), 1,
              [chunks |-> <<>>, current_chunk |-> <<>>, current_size |-> 0,
               current_start |-> 0],
              chunk_size, chunk_overlap, separators)

\* unit i closes the current chunk (line 833)
ClosesAt(i) ==
    /\ BufferBefore(i).current_size + Len(units[i]) > chunk_size
    /\ BufferBefore(i).current_chunk # <<>>

\* the number of characters of the units us
TotalLen(us) == Len(Concat(us))

\* the longest suffix of whole units of `closed` with total length <= target
LongestSuffixWithin(closed, target) ==
    LET A == {a \in 0..Len(closed) :
                 TotalLen(SubSeq(closed, a + 1, Len(closed))) <= target}
    IN  SubSeq(closed, Min(A) + 1, Len(closed))

\* u is one of the configured separators, or made only of separator characters
IsSeparatorUnit(u) == u \in SeqRange(separators) \/ AllOfSeparator(u, separators)

\* us without its leading separator units
RECURSIVE WithoutLeadingSeparatorUnits(_)
WithoutLeadingSeparatorUnits(us) ==
    IF us = <<>> THEN <<>>
    ELSE IF IsSeparatorUnit(Head(us)) THEN WithoutLeadingSeparatorUnits(Tail(us))
    ELSE us

\* C29: when a chunk is closed with chunkOverlap > 0, the next buffer is
\* seeded with the longest suffix of whole Units of the closed chunk whose
\* total length is <= min(chunkOverlap, len(chunk)), and every leading Unit of
\* that seed that is one of the configured separators (or made only of
\* separator characters) is dropped and not counted in the overlap length.
C29_OverlapSeed ==
    (Chunked /\ chunk_overlap > 0) =>
        \A i \in 1..Len(units) :
            ClosesAt(i) =>
                LET closed == BufferBefore(i).current_chunk
                    chunk_text == Concat(closed)
                    target == IF chunk_overlap < Len(chunk_text) THEN chunk_overlap
                              ELSE Len(chunk_text)
                    seed == NextBuffer(BufferBefore(i), chunk_text, chunk_overlap,
                                       separators)
                    claimed == WithoutLeadingSeparatorUnits(
                                   LongestSuffixWithin(closed, target))
                IN  /\ seed.current_chunk = claimed
                    /\ seed.current_size = TotalLen(claimed)

-----------------------------------------------------------------------------
(* Further properties of the page workers (SpecDocx) *)

\* the result lines of page_num in `results`
LinesOfPage(page_num) == {k \in 1..Len(results) : results[k].page_num = page_num}

\* C30: for a page inside [from_page, to_page) with at least one paragraph,
\* whose document the worker loaded, process_page_multiprocess returns one
\* result line holding the page's paragraph text whether enable_multimodal is
\* true or false; with enable_multimodal false the line has the text and no
\* images.
C30_WorkerReturnsOneLine ==
    \A i \in 1..Len(futures) :
        (futures[i].status = "returned" /\ futures[i].loaded
            /\ para_page_mapping[i] # <<>>) =>
            /\ Cardinality(LinesOfPage(PageNumOf(i))) = 1
            /\ \A k \in LinesOfPage(PageNumOf(i)) :
                  /\ UNION {SeqRange(results[k].text[j]) : j \in 1..Len(results[k].text)}
                        = TextParasOfPage(i)
                  /\ ~docx_multimodal => results[k].image_paths = <<>>

-----------------------------------------------------------------------------
(* Specification of the concurrency of one parse with multimodal enabled:  *)
(* BaseParser.process_chunks_images runs one task per chunk under its own   *)
(* semaphore (base_parser.py, lines 1193-1224); the task of a chunk calls   *)
(* process_chunk_images_async, which hands the chunk's resolved images to   *)
(* process_multiple_images (line 1135), and every call of                   *)
(* process_multiple_images creates a semaphore of its own (lines 406-410).  *)
(*                                                                         *)
(* A chunk task is [pc, semaphore, images]: images[i] is the position of    *)
(* the task of the chunk's i-th resolved image: "waiting", "ocr" (inside    *)
(* the slot, perform_ocr called), "caption" (inside the slot, the caption   *)
(* backend called) or "done".  An OCR call counts as ended when its task    *)
(* moves on.                                                                *)

MaxChunkTasks == 2          \* a parse has at most this many chunks

WaitingChunkTask(n) ==
    [pc |-> "waiting", semaphore |-> 0, images |-> [i \in 1..n |-> "waiting"]]

\* process_chunks_images up to line 1213: the semaphore and one task per chunk
InitNested ==
    /\ parser_max_tasks \in 1..MaxConcurrentTasks
    /\ chunks_semaphore = MaxConcurrency(parser_max_tasks)
    /\ \E n \in 1..MaxChunkTasks :
       \E counts \in [1..n -> 0..MaxImages] :
          chunk_tasks = [c \in 1..n |-> WaitingChunkTask(counts[c])]
    /\ kpc = "gathering"
    /\ ParserIdle
    /\ DocxIdle
    /\ ImagesIdle
    /\ ServerIdle
    /\ MappingIdle
    /\ ProtoIdle
    /\ BackendIdle
    /\ UrlIdle
    /\ InstanceIdle
    /\ PathIdle

\* get_image_caption_async (lines 517-527) calls the caption backend without
\* awaiting: while one image task is in its caption call the loop runs nothing
NestedLoopFree ==
    \A c \in 1..Len(chunk_tasks) :
        \A i \in 1..Len(chunk_tasks[c].images) : chunk_tasks[c].images[i] # "caption"

NestedUnchanged ==
    /\ UNCHANGED <<parser_max_tasks, kpc>>
    /\ UNCHANGED <<parserVars, docxVars, imageVars, serverVars, mappingVars, protoVars>>
    /\ UNCHANGED <<backendVars, urlVars, instanceVars, pathVars>>

\* lines 1199-1201, async with semaphore: the chunk tasks get the semaphore in
\* task order and call process_chunk_images_async.  A chunk without resolved
\* images is returned at once (lines 1098, 1131); otherwise
\* process_multiple_images creates its semaphore (lines 407-410) and one task
\* per image.
ChunkAcquire(c) ==
    /\ kpc = "gathering" /\ NestedLoopFree
    /\ chunk_tasks[c].pc = "waiting"
    /\ \A d \in 1..(c - 1) : chunk_tasks[d].pc # "waiting"
    /\ chunks_semaphore > 0
    /\ IF chunk_tasks[c].images = <<>>
       THEN /\ chunk_tasks' = [chunk_tasks EXCEPT ![c].pc = "done"]
            /\ UNCHANGED chunks_semaphore
       ELSE /\ chunk_tasks' = [chunk_tasks EXCEPT
                                  ![c].pc = "enriching",
                                  ![c].semaphore = MaxConcurrency(parser_max_tasks)]
            /\ chunks_semaphore' = chunks_semaphore - 1
    /\ NestedUnchanged

\* line 378, async with semaphore, inside the batch of chunk c; lines 325-326:
\* perform_ocr is started in an executor thread
ImageAcquire(c, i) ==
    /\ kpc = "gathering" /\ NestedLoopFree
    /\ chunk_tasks[c].pc = "enriching"
    /\ chunk_tasks[c].images[i] = "waiting"
    /\ \A j \in 1..(i - 1) : chunk_tasks[c].images[j] # "waiting"
    /\ chunk_tasks[c].semaphore > 0
    /\ chunk_tasks' = [chunk_tasks EXCEPT ![c].semaphore = @ - 1,
                                          ![c].images[i] = "ocr"]
    /\ UNCHANGED chunks_semaphore
    /\ NestedUnchanged

\* lines 326-356: the OCR stage of image i of chunk c ends (text, "", timeout or
\* exception); with a caption parser and a base64 image the caption backend is
\* called next, otherwise the task ends and releases the batch's semaphore
ImageOcrEnds(c, i) ==
    /\ kpc = "gathering" /\ NestedLoopFree
    /\ chunk_tasks[c].images[i] = "ocr"
    /\ \/ chunk_tasks' = [chunk_tasks EXCEPT ![c].images[i] = "caption"]
       \/ chunk_tasks' = [chunk_tasks EXCEPT ![c].semaphore = @ + 1,
                                             ![c].images[i] = "done"]
    /\ UNCHANGED chunks_semaphore
    /\ NestedUnchanged

\* lines 342-358: the caption call ends; the task ends and releases the
\* batch's semaphore
ImageCaptionEnds(c, i) ==
    /\ kpc = "gathering"
    /\ chunk_tasks[c].images[i] = "caption"
    /\ chunk_tasks' = [chunk_tasks EXCEPT ![c].semaphore = @ + 1,
                                          ![c].images[i] = "done"]
    /\ UNCHANGED chunks_semaphore
    /\ NestedUnchanged

\* lines 432-453 and 1135-1166: the batch of chunk c is gathered, the chunk is
\* returned and its task releases the semaphore of process_chunks_images
ChunkReturns(c) ==
    /\ kpc = "gathering" /\ NestedLoopFree
    /\ chunk_tasks[c].pc = "enriching"
    /\ \A i \in 1..Len(chunk_tasks[c].images) : chunk_tasks[c].images[i] = "done"
    /\ chunk_tasks' = [chunk_tasks EXCEPT ![c].pc = "done"]
    /\ chunks_semaphore' = chunks_semaphore + 1
    /\ NestedUnchanged

\* lines 1213-1242: gather is complete and the chunk list is returned
GatherChunkTasksReturn ==
    /\ kpc = "gathering"
    /\ \A c \in 1..Len(chunk_tasks) : chunk_tasks[c].pc = "done"
    /\ kpc' = "returned"
    /\ UNCHANGED <<parser_max_tasks, chunks_semaphore, chunk_tasks>>
    /\ UNCHANGED <<parserVars, docxVars, imageVars, serverVars, mappingVars, protoVars>>
    /\ UNCHANGED <<backendVars, urlVars, instanceVars, pathVars>>

NextNested ==
    \/ \E c \in 1..Len(chunk_tasks) : ChunkAcquire(c)
    \/ \E c \in 1..Len(chunk_tasks) :
          \E i \in 1..Len(chunk_tasks[c].images) : ImageAcquire(c, i)
    \/ \E c \in 1..Len(chunk_tasks) :
          \E i \in 1..Len(chunk_tasks[c].images) : ImageOcrEnds(c, i)
    \/ \E c \in 1..Len(chunk_tasks) :
          \E i \in 1..Len(chunk_tasks[c].images) : ImageCaptionEnds(c, i)
    \/ \E c \in 1..Len(chunk_tasks) : ChunkReturns(c)
    \/ GatherChunkTasksReturn

SpecNested == InitNested /\ [][NextNested]_vars

\* the images of the parse with an OCR or caption backend call in progress
ImagesBeingEnriched ==
    UNION {{<<c, i>> : i \in {j \in 1..Len(chunk_tasks[c].images) :
                                 chunk_tasks[c].images[j] \in {"ocr", "caption"}}} :
           c \in 1..Len(chunk_tasks)}

\* C31: during one parse with multimodal enabled, across all chunks whose
\* images are processed concurrently, the number of images with an OCR or
\* caption call in progress never exceeds min(max_concurrent_tasks, 5).
C31_ImagesInFlightBoundedAcrossChunks ==
    kpc = "gathering" =>
        Cardinality(ImagesBeingEnriched) <= MaxConcurrency(parser_max_tasks)

-----------------------------------------------------------------------------
(* Specification of the image enrichment of one batch in which one backend  *)
(* call never gets a response: the steps of SpecImages, with the call of    *)
(* no_response left without an answer, under the fairness of the event      *)
(* loop (a ready task is run, a due timer fires, a backend that responds    *)
(* does so in the end).                                                     *)
(*                                                                         *)
(* The OCR call runs in an executor thread under asyncio.wait_for(...,      *)
(* timeout=30.0) (base_parser.py, lines 325-329).  The caption call is      *)
(* made by get_image_caption_async without awaiting (lines 517-527), so     *)
(* the timer of wait_for at line 343 cannot fire while it runs; the call    *)
(* ends by itself only where the client has a timeout: requests.post(...,   *)
(* timeout=30) of the "openai" interface (caption.py, lines 299-326), none  *)
(* in ollama.Client(host=host) of the "ollama" interface (lines 226-236).   *)

InitLive ==
    /\ \E n \in 1..MaxImages : images_data = [i \in 1..n |-> i]
    /\ max_concurrent_tasks \in 1..MaxConcurrentTasks
    /\ caption_parser \in BOOLEAN
    /\ semaphore = MaxConcurrency(max_concurrent_tasks)
    /\ image_tasks = [i \in 1..Len(images_data) |-> WaitingTask(images_data[i])]
    /\ image_results = <<>>
    /\ ipc = "gathering"
    /\ interface_type \in {"openai", "ollama"}
    /\ \E stage \in {"ocr", "caption"} :
       \E url \in 1..Len(images_data) : no_response = [stage |-> stage, url |-> url]
    /\ ParserIdle
    /\ DocxIdle
    /\ ServerIdle
    /\ MappingIdle
    /\ ProtoIdle
    /\ NestedIdle
    /\ UrlIdle
    /\ InstanceIdle
    /\ PathIdle

\* the backend of `stage` answers the call made for image i
Responds(stage, i) == no_response # [stage |-> stage, url |-> image_tasks[i].url]

\* caption.py lines 299-326 and 334-360: the request of the "openai" interface
\* times out after 30 s, _call_openai_api returns None and get_caption ""
CaptionRequestTimesOut(i) ==
    /\ ipc = "gathering"
    /\ image_tasks[i].pc = "caption"
    /\ ~Responds("caption", i)
    /\ interface_type = "openai"
    /\ \E exit \in {"returned", "caught", "exception"} :
          image_tasks' = [image_tasks EXCEPT
                             ![i] = TaskExit(@, @.ocr, @.ocr_call, "empty", exit)]
    /\ semaphore' = semaphore + 1
    /\ ImagesUnchanged

LiveAcquire == \E i \in 1..Len(image_tasks) : AcquireSemaphore(i)
LiveOcrReturns == \E i \in 1..Len(image_tasks) : Responds("ocr", i) /\ OcrReturns(i)
LiveOcrTimesOut == \E i \in 1..Len(image_tasks) : OcrTimesOut(i)
LiveOcrRaises == \E i \in 1..Len(image_tasks) : Responds("ocr", i) /\ OcrRaises(i)
LiveOcrThreadEnds == \E i \in 1..Len(image_tasks) : Responds("ocr", i) /\ OcrThreadEnds(i)
LiveCaptionEnds == \E i \in 1..Len(image_tasks) : Responds("caption", i) /\ CaptionEnds(i)
LiveCaptionRequestTimesOut == \E i \in 1..Len(image_tasks) : CaptionRequestTimesOut(i)

NextLive ==
    \/ LiveAcquire
    \/ LiveOcrReturns
    \/ LiveOcrTimesOut
    \/ LiveOcrRaises
    \/ LiveOcrThreadEnds
    \/ LiveCaptionEnds
    \/ LiveCaptionRequestTimesOut
    \/ GatherImagesReturn

FairLive ==
    /\ WF_vars(LiveAcquire)
    /\ WF_vars(LiveOcrReturns \/ LiveOcrTimesOut \/ LiveOcrRaises)
    /\ WF_vars(LiveOcrThreadEnds)
    /\ WF_vars(LiveCaptionEnds)
    /\ WF_vars(LiveCaptionRequestTimesOut)
    /\ WF_vars(GatherImagesReturn)

SpecLive == InitLive /\ [][NextLive]_vars /\ FairLive

\* the result of the stage that got no response, once the batch is returned
NoResponseResult ==
    LET r == image_results[no_response.url]
    IN  IF no_response.stage = "ocr" THEN r.ocr_text ELSE r.caption

\* the batch was returned with one result per image and the empty string for
\* the stage that got no response
ReturnedDespiteNoResponse ==
    /\ ImagesReturned
    /\ Len(image_results) = Len(image_tasks)
    /\ image_tasks[no_response.url].exit # "exception" => NoResponseResult = ""

\* C32: if the caption backend or the OCR backend never responds for one
\* image, that image's enrichment still completes with an empty result for
\* that stage, the other images of the batch complete, and
\* process_multiple_images eventually returns.
C32_EnrichmentCompletesWithoutResponse == <>ReturnedDespiteNoResponse

-----------------------------------------------------------------------------
(* Specification of one ReadFromURL request: server.py lines 196-282,       *)
(* Parser.parse_url (parser.py, lines 150-205), WebParser.parse_into_text   *)
(* and scrape (web_parser.py, lines 22-130) and BaseParser.parse.           *)
(*                                                                         *)
(* A field of request.read_config is [given, value]: whether the client     *)
(* set it, and to what.  The title given in the request is the character    *)
(* "T" or "", the <title> of the page is "P", its <h1> is "H", "Untitled    *)
(* Web Page" is "U" and the text "Error parsing web page: ..." is "E".      *)

\* the ideographic full stop of the default separators
FullStop == "U+3002"

\* server.py, lines 119 and 212
DefaultSeparators == << <<"\n", "\n">>, <<"\n">>, <<FullStop>> >>

Unset(default) == [given |-> FALSE, value |-> default]
Given(v) == [given |-> TRUE, value |-> v]

\* what the handler reads from a message field: the value the client set, or
\* the default of the field's type
FieldValue(f, default) == IF f.given THEN f.value ELSE default

\* server.py, lines 210-213 (and 117-120 of ReadFromFile): `field or default`
ChunkingConfigOf(read_config) ==
    LET size == FieldValue(read_config.chunk_size, 0)
        overlap == FieldValue(read_config.chunk_overlap, 0)
        seps == FieldValue(read_config.separators, <<>>)
        multimodal == FieldValue(read_config.enable_multimodal, FALSE)
    IN  [chunk_size |-> ChunkSizeOf([chunk_size |-> size]),
         chunk_overlap |-> ChunkOverlapOf([chunk_overlap |-> overlap]),
         separators |-> IF seps # <<>> THEN seps ELSE DefaultSeparators,
         enable_multimodal |-> multimodal]

\* web_parser.py, lines 30-60: navigation or the browser fails and scrape
\* returns the empty soup
EmptyPage == [title |-> FALSE, h1 |-> FALSE, text |-> <<>>]

Scrape(req) == IF req.fetch = "fails" THEN EmptyPage ELSE req.page

\* lines 96-111: the given title, else <title>, else <h1>, else the default
PageTitle(title, soup) ==
    IF title # "" THEN title
    ELSE IF soup.title THEN "P"
    ELSE IF soup.h1 THEN "H"
    ELSE "U"

\* lines 114-116: the non-empty lines of the page text, joined by "\n"
RECURSIVE NonEmptyLines(_, _)
NonEmptyLines(t, line) ==
    IF t = <<>> THEN (IF line = <<>> THEN <<>> ELSE <<line>>)
    ELSE IF Head(t) = "\n"
         THEN (IF line = <<>> THEN <<>> ELSE <<line>>) \o NonEmptyLines(Tail(t), <<>>)
         ELSE NonEmptyLines(Tail(t), Append(line, Head(t)))

RECURSIVE JoinLines(_)
JoinLines(ls) ==
    IF ls = <<>> THEN <<>>
    ELSE IF Len(ls) = 1 THEN ls[1]
    ELSE ls[1] \o <<"\n">> \o JoinLines(Tail(ls))

\* WebParser.parse_into_text, lines 62-130: title + "\n\n" + text, or the
\* error text when anything in it raises (lines 125-127)
WebParseIntoText(req) ==
    IF req.parse = "raises" THEN <<"E">>
    ELSE LET soup == Scrape(req)
         IN  <<PageTitle(req.title, soup)>> \o <<"\n", "\n">>
                \o JoinLines(NonEmptyLines(soup.text, <<>>))

\* Parser.parse_url, parser.py lines 171-205: the result of WebParser.parse,
\* or None when it raises
ParseUrl(req, config) ==
    IF req.chunking = "raises" THEN NoneResult
    ELSE [kind |-> "ParseResult",
          chunks |-> ChunkText(WebParseIntoText(req), config.chunk_size,
                               config.chunk_overlap, config.separators)]

\* server.py, lines 258-271: the response for the value parse_url returned
UrlResponseFor(result) ==
    IF result.kind = "None"
    THEN [code |-> "INTERNAL", details |-> "Failed to parse URL", chunks |-> <<>>]
    ELSE [code |-> "OK", details |-> "", chunks |-> result.chunks]

PageTexts == {<<>>, <<"a">>, <<"a", "\n", "\n", "a">>}

Pages == {EmptyPage} \cup [title : BOOLEAN, h1 : BOOLEAN, text : PageTexts \ {<<>>}]

\* the requests: a page that cannot be fetched has no content; a given
\* chunk_size is positive and a given chunk_overlap is below the chunk size
InitUrl ==
    /\ \E title \in {"", "T"}, fetch \in {"ok", "fails"}, page \in Pages,
          parse \in {"returns", "raises"}, chunking \in {"returns", "raises"} :
       \E size \in {Unset(0)} \cup {Given(v) : v \in 1..MaxRequestChunkSize} :
       \E overlap \in {Unset(0)} \cup {Given(v) : v \in 0..MaxRequestChunkSize} :
       \E seps \in {Unset(<<>>), Given(<< <<"\n">> >>)} :
       \E multimodal \in {Unset(FALSE), Given(FALSE), Given(TRUE)} :
          /\ fetch = "fails" => page = EmptyPage
          /\ overlap.given => overlap.value < ChunkSizeOf([chunk_size |-> size.value])
          /\ url_request = [title |-> title, fetch |-> fetch, page |-> page,
                            parse |-> parse, chunking |-> chunking,
                            read_config |-> [chunk_size |-> size,
                                             chunk_overlap |-> overlap,
                                             separators |-> seps,
                                             enable_multimodal |-> multimodal]]
    /\ chunking_config = <<>>
    /\ url_result = NoneResult
    /\ url_response = [code |-> "OK", details |-> "", chunks |-> <<>>]
    /\ upc = "received"
    /\ ParserIdle
    /\ DocxIdle
    /\ ImagesIdle
    /\ ServerIdle
    /\ MappingIdle
    /\ ProtoIdle
    /\ NestedIdle
    /\ BackendIdle
    /\ InstanceIdle
    /\ PathIdle

\* ReadFromURL, server.py lines 205-274
ReadFromURL ==
    /\ upc = "received"
    /\ LET config == ChunkingConfigOf(url_request.read_config)
           result == ParseUrl(url_request, config)
       IN  /\ chunking_config' = config
           /\ url_result' = result
           /\ url_response' = UrlResponseFor(result)
    /\ upc' = "responded"
    /\ UNCHANGED url_request
    /\ UNCHANGED <<parserVars, docxVars, imageVars, serverVars, mappingVars, protoVars>>
    /\ UNCHANGED <<nestedVars, backendVars, instanceVars, pathVars>>

NextUrl == ReadFromURL

SpecUrl == InitUrl /\ [][NextUrl]_vars

UrlResponded == upc = "responded"

\* C34: ReadFromURL: when the page cannot be fetched or parsing the page
\* raises, the response carries an explicit error status and message; it is
\* never an OK response whose chunks hold only the title or an error text.
C34_UnfetchedPageIsAnError ==
    (UrlResponded /\ (url_request.fetch = "fails" \/ url_request.parse = "raises")) =>
        /\ url_response.code # "OK"
        /\ url_response.details # ""

\* C35: the chunking configuration takes chunk_size, chunk_overlap, separators
\* and enable_multimodal from the request whenever the request gives a value
\* (a chunk_overlap of 0 included), and the defaults 512, 50,
\* ["\n\n", "\n", "\u3002"] and false only for a field the request leaves unset.
C35_ConfigTakesRequestValues ==
    UrlResponded =>
        LET rc == url_request.read_config
        IN  /\ chunking_config.chunk_size = FieldValue(rc.chunk_size, 512)
            /\ chunking_config.chunk_overlap = FieldValue(rc.chunk_overlap, 50)
            /\ chunking_config.separators = FieldValue(rc.separators, DefaultSeparators)
            /\ chunking_config.enable_multimodal = FieldValue(rc.enable_multimodal, FALSE)

-----------------------------------------------------------------------------
(* Further properties of BaseParser.parse (SpecParse) *)

\* the formats with inline images: office, PDF, markdown and image documents
MultimodalClasses == {"DocParser", "DocxParser", "PDFParser", "MarkdownParser", "ImageParser"}

\* parse has called process_chunks_images on a non-empty chunk list
RanChunkImages == task_results # <<>>

\* C36: parse runs the per-chunk image extraction and enrichment if and only
\* if multimodal is enabled and the document's format is office, PDF,
\* markdown or an image type; it never runs it for plain text or web pages.
C36_EnrichmentOnlyForImageFormats ==
    (pc # "parse" /\ chunks # <<>>) =>
        (RanChunkImages <=> (enable_multimodal /\ parser_class \in MultimodalClasses))

\* the chunk content from start to end is one image reference
IsReference(content, start, end) ==
    /\ 0 <= start /\ start < end /\ end <= Len(content)
    /\ ChunkImageAt(content, start).end = end

\* C37: every image reference found in a chunk whose image was resolved
\* yields its own entry in chunk.images, with 0 <= start < end <= len(content)
\* and content[start:end] equal to the matched reference; a URL referenced
\* twice in one chunk yields two entries.
C37_OneEntryPerResolvedReference ==
    \A i \in 1..Len(task_results) :
        task_results[i].status = "ok" =>
            LET c == task_results[i].chunk
                refs == ExtractImages(c.content)
                resolved == {c.images[k].original_url : k \in 1..Len(c.images)}
            IN  /\ \A k \in 1..Len(c.images) :
                       IsReference(c.content, c.images[k].start, c.images[k].end)
                /\ \A r \in 1..Len(refs) :
                       refs[r].original_url \in resolved =>
                           \E k \in 1..Len(c.images) : c.images[k] = refs[r]

\* the chunk list parse handed to process_chunks_images
InputChunks == CapChunks(ChunkText(text, chunk_size, chunk_overlap, separators), max_chunks)

\* C38: process_chunks_images changes nothing but the images list of each
\* chunk: for any outcome of the per-chunk tasks (success, exception, or
\* failure of the whole run) the returned list has the length and order of
\* the input and each chunk's content, seq, start and end are unchanged.
C38_OnlyImagesChange ==
    (pc = "returned" /\ RanChunkImages) =>
        LET input == InputChunks
        IN  /\ Len(chunks) = Len(input)
            /\ \A i \in 1..Len(chunks) :
                  /\ chunks[i].content = input[i].content
                  /\ chunks[i].seq = input[i].seq
                  /\ chunks[i].start = input[i].start
                  /\ chunks[i].end = input[i].end

\* C38 witness: a returned list of at least two chunks in which the task of
\* one chunk raised before the task of a later chunk set its images
C38_Witness ==
    /\ pc = "returned"
    /\ Len(chunks) >= 2
    /\ \E i, j \in 1..Len(task_results) :
          /\ i < j
          /\ task_results[i].status = "exception"
          /\ task_results[j].status = "ok"
          /\ chunks[j].images # <<>>
          /\ chunks[i].content # chunks[j].content

-----------------------------------------------------------------------------
(* Specification of the two paths of Docx.__call__ (docx_parser.py, lines   *)
(* 564-577): a document of fewer than 30 paragraphs is processed page by     *)
(* page in the calling process (_process_small_document, lines 669-685,      *)
(* and _process_page, lines 422-518); any other document goes to the worker  *)
(* pool, as in SpecDocx.  The paragraphs of doc_paragraphs are those of the  *)
(* pages to process.                                                         *)

\* _process_page, lines 441-502: the line of one page.  get_picture is called
\* for every paragraph, whatever enable_multimodal is; the text of the line
\* is the join of the text parts, and the images stay PIL objects in line[1]
PageLine(doc, page_num, paragraphs) ==
    LET content_sequence == ContentSequence(doc, paragraphs, TRUE)
        texts == ItemsOfType(content_sequence, "text")
    IN  [text |-> texts, page_num |-> page_num]

InitPaths ==
    /\ small_document \in BOOLEAN
    /\ doc_paragraphs \in Documents
    /\ para_page_mapping \in Mappings(Len(doc_paragraphs))
    /\ docx_multimodal \in BOOLEAN
    /\ futures = IF small_document THEN <<>>
                 ELSE [i \in 1..Len(para_page_mapping) |->
                          [status |-> "running", loaded |-> FALSE, failed_saves |-> {}]]
    /\ results = <<>>
    /\ image_url_map = {}
    /\ sorted_lines = <<>>
    /\ all_lines = <<>>
    /\ same_picture \in {b \in BOOLEAN : b => Cardinality({q \in 1..Len(doc_paragraphs) :
                                                   doc_paragraphs[q] = "I"}) >= 2}
    /\ temp_file \in {b \in BOOLEAN : b => ~small_document}
    /\ temp_images = {}
    /\ upload_calls = <<>>
    /\ dpc = "collecting"
    /\ ParserIdle
    /\ ImagesIdle
    /\ ServerIdle
    /\ MappingIdle
    /\ ProtoIdle
    /\ NestedIdle
    /\ BackendIdle
    /\ UrlIdle
    /\ InstanceIdle

\* _process_small_document, lines 678-685: _process_page on every page, in the
\* order of the page numbers; each call appends its line to self.all_lines
ProcessSmallDocument ==
    /\ small_document
    /\ dpc = "collecting"
    /\ LET lines == [p \in 1..Len(para_page_mapping) |->
                        PageLine(doc_paragraphs, PageNumOf(p), para_page_mapping[p])]
       IN  /\ sorted_lines' = lines
           /\ all_lines' = [k \in 1..Len(lines) |-> [text |-> lines[k].text]]
    /\ dpc' = "done"
    /\ UNCHANGED <<doc_paragraphs, para_page_mapping, docx_multimodal, futures, results,
                   image_url_map, same_picture, temp_file, temp_images, upload_calls>>
    /\ UNCHANGED <<parserVars, imageVars, serverVars, mappingVars, protoVars, restVars>>

PoolFutureReturns == ~small_document /\ \E i \in 1..Len(futures) : FutureReturns(i)
PoolFutureRaises == ~small_document /\ \E i \in 1..Len(futures) : FutureRaises(i)
PoolResults == ~small_document /\ ProcessMultiprocessResults

NextPaths ==
    \/ ProcessSmallDocument
    \/ PoolFutureReturns
    \/ PoolFutureRaises
    \/ PoolResults

SpecPaths == InitPaths /\ [][NextPaths]_vars

\* the text of a page in which every extracted image is the markdown
\* reference of its own upload, at the position of its paragraph
RECURSIVE ReferencedParts(_, _, _)
ReferencedParts(content_sequence, page_num, k) ==
    IF content_sequence = <<>> THEN <<>>
    ELSE IF Head(content_sequence).type = "text"
         THEN <<Head(content_sequence)>>
              \o ReferencedParts(Tail(content_sequence), page_num, k)
         ELSE <<MarkdownImage([page |-> page_num, idx |-> k])>>
              \o ReferencedParts(Tail(content_sequence), page_num, k + 1)

\* nothing failed: every page task returned its line, every image was saved
\* and every upload gave a URL
NothingFailed ==
    small_document \/
        /\ \A i \in 1..Len(futures) :
              /\ futures[i].status = "returned"
              /\ futures[i].loaded
              /\ futures[i].failed_saves = {}
        /\ image_url_map = PathsOf(results)

\* C33: for the same document, page groups and multimodal setting, the
\* sequential path (fewer than 30 paragraphs) and the worker-pool path give
\* the same kind of result: the text of each page, in page order, with each
\* extracted image as a markdown reference to its uploaded URL at its
\* original position.
C33_BothPathsGiveReferencedText ==
    (DocxDone /\ docx_multimodal /\ NothingFailed) =>
        all_lines = [p \in 1..Len(para_page_mapping) |->
                        [text |-> ReferencedParts(
                                      ContentSequence(doc_paragraphs, para_page_mapping[p], TRUE),
                                      PageNumOf(p), 0)]]

====
